---- MODULE Spec2Model ----
(***************************************************************************)
(* Binary2Groundtruth: the labeling pipeline of src/src/b2g.rs (PE and ELF *)
(* front-ends) over the byte records of src/src/groundtruth.rs, with the   *)
(* disassembler of src/src/disassembler.rs as a pure decoding function.    *)
(*                                                                         *)
(* Sequences are 1-based here and 0-based in the source: the byte at the   *)
(* source index i is bytes[i + 1].  Every operator that takes a position   *)
(* takes the source's 0-based position.                                    *)
(***************************************************************************)
EXTENDS Integers, Sequences, FiniteSets, TLC

VARIABLES
    format,        \* "PE" or "ELF": the branch main() takes on the container type
    sections,      \* Vec<Section> of the binary
    file,          \* the byte values of the binary as read from disk (never changes)
    bytes,         \* PE.bytes / ELF.bytes: Vec<Byte>
    functions,     \* pdb.functions / dwarf.functions: Vec<Function>
    data,          \* pdb.data: Vec<Data> (global collection)
    labels,        \* pdb.labels: Vec<Label> (global collection)
    instructions,  \* PE.instructions / ELF.instructions: Vec<Instruction>
    placed,        \* history: for every pushed instruction, its function and flagged position
    written,       \* the output files written so far: a subset of {"txt", "yaml"}
    plain,         \* plain::dump: the lines built so far, one per run
    sec,           \* plain::dump: the number of sections its for loop has done
    cursor,        \* plain::dump: the index i of its while loop
    yaml,          \* yaml::dump: <<>> or <<d>>, d the serialized Dump record
    cs_err,        \* the oracle call that returns Err (counted from 1), 0 for none
    cs_calls,      \* the number of oracle calls made so far
    pc             \* the pass process() runs next, or "done" / "fatal" / "panic"

vars == <<format, sections, file, bytes, functions, data, labels, instructions,
          placed, written, plain, sec, cursor, yaml, cs_err, cs_calls, pc>>

-----------------------------------------------------------------------------
(* Bounds of the model.                                                    *)

\* length of the .text section (raw_data_size) when the file layout varies
GenTextLen == 3
\* length of the .text section (raw_data_size) when the symbol tables vary
SymTextLen == 6
\* length of the .text section (raw_data_size) when one function has in-line data
InsnTextLen == 7
\* length of the .text section (raw_data_size) when the byte values vary
PadTextLen == 5
\* length of the .text section (raw_data_size) when two data symbols occur
CutTextLen == 6
\* length of the .text section (raw_data_size) when the section table varies
SecTextLen == 4
\* the latest oracle call that returns Err
MaxCsErr == 3
\* length of the .text section (raw_data_size) when a jump table has labels
TabTextLen == 24
\* largest number of labels of the jump table
MaxTabLabels == 5
\* length of the .text section (raw_data_size) when the table's name varies
VecTextLen == 6
\* length of the .text section (raw_data_size) when a function has several tables
MultiTextLen == 12
\* largest number of jump tables of the function
MaxTables == 2
\* largest raw_data_offset of .text: the number of file bytes in front of it
MaxRawOff == 1
\* largest number of file bytes behind the .text section
MaxTrailer == 1
\* largest virtual address of the .text section of an ELF
MaxVa == 1

-----------------------------------------------------------------------------
(* Plain sequence helpers.                                                 *)

Min(a, b) == IF a < b THEN a ELSE b

Max(a, b) == IF a > b THEN a ELSE b

Range(s) == {s[i] : i \in 1..Len(s)}

\* s[lo..hi) with the source's 0-based, end-exclusive bounds
Slice(s, lo, hi) == SubSeq(s, lo + 1, hi)

RECURSIVE Concat(_)
Concat(ss) == IF ss = <<>> THEN <<>> ELSE Head(ss) \o Concat(Tail(ss))

-----------------------------------------------------------------------------
(* groundtruth.rs: Byte and its flag list.                                 *)

\* Vec::dedup: removes CONSECUTIVE repeated elements only
RECURSIVE Dedup(_)
Dedup(s) ==
    IF Len(s) <= 1 THEN s
    ELSE IF s[1] = s[2] THEN Dedup(Tail(s))
         ELSE <<s[1]>> \o Dedup(Tail(s))

HasFlag(b, f) == \E k \in 1..Len(b.flags) : b.flags[k] = f

is_code(b) == HasFlag(b, "CODE")

is_data(b) == HasFlag(b, "DATA")

is_alignment(b) == HasFlag(b, "INSTRUCTION_ALIGNMENT")

\* the mutant of set_flags: push without the dedup
set_flags_nodedup(b, fl) == [b EXCEPT !.flags = b.flags \o fl]

\* Byte::set_flags: push every flag, then dedup
set_flags(b, fl) == [b EXCEPT !.flags = Dedup(b.flags \o fl)]

\* set_flags on the byte at 0-based position p (p in range)
FlagAt(bs, p, fl) == [bs EXCEPT ![p + 1] = set_flags(bs[p + 1], fl)]

InRange(bs, p) == p >= 0 /\ p < Len(bs)

\* for i in 0..n { bytes[lo + i].set_flags(fl) }, skipping data bytes when guard
FlagRange(bs, lo, n, fl, guard) ==
    [i \in 1..Len(bs) |->
        IF i - 1 >= lo /\ i - 1 < lo + n /\ ~(guard /\ is_data(bs[i]))
        THEN set_flags(bs[i], fl)
        ELSE bs[i]]

\* the loop above indexes only inside the vector
RangeOk(bs, lo, n) == n = 0 \/ lo + n <= Len(bs)

Values(bs) == [i \in 1..Len(bs) |-> bs[i].value]

-----------------------------------------------------------------------------
(* disassembler.rs: the oracle.  capstone's decoder is modelled on the     *)
(* x86 opcodes that occur in the model's files:    00 /r (add r/m8, r8),   *)
(* 90 (nop), C3 (ret), CC (int3).  disasm_all decodes from address 0 and   *)
(* stops at the first byte sequence it cannot decode (here: an instruction *)
(* cut off by the end of the buffer).                                      *)

\* the byte values of the model's files
ByteValues == {0, 144, 195, 204}

\* length of "00 /r" by its ModRM byte m (no SIB byte occurs for ByteValues)
AddLength(m) ==
    LET mod == m \div 64
        rm  == m % 8
    IN  CASE mod = 3 -> 2
          [] mod = 0 -> IF rm = 5 THEN 6 ELSE 2
          [] mod = 1 -> 3
          [] mod = 2 -> 6

\* one decoded instruction of capstone at 0-based address p, or length 0
\* when the bytes at p do not decode
CsInsn(buf, p) ==
    LET v == buf[p + 1]
        one(m, g) == [mnemonic |-> m, groups |-> g, address |-> p, size |-> 1,
                      lea_nop |-> FALSE]
        bad == [mnemonic |-> "", groups |-> <<>>, address |-> p, size |-> 0,
                lea_nop |-> FALSE]
    IN  CASE v = 144 -> one("nop", <<>>)
          [] v = 195 -> one("ret", <<"RET">>)
          [] v = 204 -> one("int3", <<"INT">>)
          [] v = 0 ->
                IF p + 1 >= Len(buf) THEN bad
                ELSE LET n == AddLength(buf[p + 2])
                     IN  IF p + n > Len(buf) THEN bad
                         ELSE [mnemonic |-> "add", groups |-> <<>>, address |-> p,
                               size |-> n, lea_nop |-> FALSE]
          [] OTHER -> bad

\* cs.disasm_all(&buffer, 0x0)
RECURSIVE disasm_all(_, _)
disasm_all(buf, p) ==
    IF p >= Len(buf) THEN <<>>
    ELSE LET i == CsInsn(buf, p)
         IN  IF i.size = 0 THEN <<>>
             ELSE <<i>> \o disasm_all(buf, p + i.size)

\* the flag a capstone group maps to (the match on group_id)
GroupFlag(g) ==
    CASE g = "CALL" -> <<"INSTRUCTION_CALL">>
      [] g = "INT"  -> <<"INSTRUCTION_INT">>
      [] g = "IRET" -> <<"INSTRUCTION_IRET">>
      [] g = "JUMP" -> <<"INSTRUCTION_JUMP">>
      [] g = "RET"  -> <<"INSTRUCTION_RET">>
      [] OTHER      -> <<>>

\* Instruction::set_flags over the groups of one instruction, in order
RECURSIVE GroupFlags(_, _)
GroupFlags(fl, gs) ==
    IF gs = <<>> THEN fl
    ELSE GroupFlags(Dedup(fl \o GroupFlag(Head(gs))), Tail(gs))

\* the groundtruth::Instruction built from one capstone instruction
MkInstruction(i) ==
    LET f1 == GroupFlags(<<>>, i.groups)
        f2 == IF i.mnemonic = "nop"
              THEN Dedup(f1 \o <<"INSTRUCTION_ALIGNMENT">>) ELSE f1
        f3 == IF i.mnemonic = "lea" /\ i.lea_nop
              THEN Dedup(f2 \o <<"INSTRUCTION_ALIGNMENT">>) ELSE f2
    IN  [mnemonic |-> i.mnemonic, offset |-> i.address, length |-> i.size,
         flags |-> f3]

\* disassembler::disassemble(buffer, arch, CAPSTONE): always Ok for these opcodes
disassemble_capstone(buf) ==
    LET is == disasm_all(buf, 0)
    IN  [k \in 1..Len(is) |-> MkInstruction(is[k])]

insn_is_alignment(i) == \E k \in 1..Len(i.flags) : i.flags[k] = "INSTRUCTION_ALIGNMENT"

-----------------------------------------------------------------------------
(* Strings are sequences of one-character strings, so that to_lowercase,   *)
(* replace and contains are computed as the standard library does.         *)

\* char::to_lowercase on the letters the model's names use
LowerChar(c) ==
    CASE c = "T" -> "t"
      [] c = "M" -> "m"
      [] c = "V" -> "v"
      [] c = "E" -> "e"
      [] c = "C" -> "c"
      [] c = "A" -> "a"
      [] c = "B" -> "b"
      [] c = "J" -> "j"
      [] c = "S" -> "s"
      [] OTHER   -> c

to_lowercase(s) == [i \in 1..Len(s) |-> LowerChar(s[i])]

StartsWith(s, t) == Len(t) <= Len(s) /\ SubSeq(s, 1, Len(t)) = t

\* str::replace(pat, ""): removes every non-overlapping match, left to right
RECURSIVE replace_with_empty(_, _)
replace_with_empty(s, pat) ==
    IF s = <<>> THEN <<>>
    ELSE IF pat # <<>> /\ StartsWith(s, pat)
         THEN replace_with_empty(SubSeq(s, Len(pat) + 1, Len(s)), pat)
         ELSE <<Head(s)>> \o replace_with_empty(Tail(s), pat)

\* str::contains
contains(s, t) == \E i \in 0..(Len(s) - Len(t)) : SubSeq(s, i + 1, i + Len(t)) = t

-----------------------------------------------------------------------------
(* b2g.rs, module pe: the symbol passes.                                   *)

\* PE::preprocess_functions / ELF::preprocess_functions
preprocess_functions(fns) == SelectSeq(fns, LAMBDA f : f.size > 0)

\* the mutant of Within: the bounds are inclusive
WithinInclusive(s, f) ==
    /\ s.segment = f.segment
    /\ s.offset >= f.offset
    /\ s.offset <= f.offset + f.size

\* the strict test of create_relationships on a label or data symbol s
Within(s, f) ==
    /\ s.segment = f.segment
    /\ s.offset > f.offset
    /\ s.offset < f.offset + f.size

\* PE::create_relationships: clones are pushed onto the child collections
create_relationships(fns, ls, ds) ==
    [k \in 1..Len(fns) |->
        [fns[k] EXCEPT
            !.labels = @ \o SelectSeq(ls, LAMBDA l : Within(l, fns[k])),
            !.data   = @ \o SelectSeq(ds, LAMBDA d : Within(d, fns[k]))]]

\* the inner loop of cut_in_line_data_end over the data of one function:
\* f is the function as cut so far, done the data already visited
RECURSIVE CutEndData(_, _, _)
CutEndData(f, done, todo) ==
    IF todo = <<>> THEN [f EXCEPT !.data = done]
    ELSE LET d == Head(todo)
         IN  IF d.name # <<>> THEN CutEndData(f, Append(done, d), Tail(todo))
             ELSE IF d.offset > f.offset /\ d.offset < f.offset + f.size
                  THEN CutEndData(
                         [f EXCEPT !.size = d.offset - f.offset],
                         Append(done, [d EXCEPT !.size = (f.size + f.offset) - d.offset]),
                         Tail(todo))
                  ELSE CutEndData(f, Append(done, d), Tail(todo))

\* the mutant of cut_in_line_data_end: the data gets its size, the function
\* keeps its own
cut_end_keeps_size(fns) ==
    [k \in 1..Len(fns) |->
        [fns[k] EXCEPT !.data = CutEndData(fns[k], <<>>, fns[k].data).data]]

\* the mutant of cut_in_line_data_end: a function that is cut ends one byte
\* early
cut_end_one_short(fns) ==
    [k \in 1..Len(fns) |->
        LET c == CutEndData(fns[k], <<>>, fns[k].data)
        IN  IF c.size < fns[k].size THEN [c EXCEPT !.size = @ - 1] ELSE c]

\* PE::cut_in_line_data_end
cut_in_line_data_end(fns) ==
    [k \in 1..Len(fns) |-> CutEndData(fns[k], <<>>, fns[k].data)]

\* the mutant of MidSize: the label name is compared as it is spelled
MidSizeCaseSensitive(f, d) ==
    LET base_name == replace_with_empty(to_lowercase(d.name), <<"v", "e", "c">>)
        label_counter ==
            Cardinality({k \in 1..Len(f.labels) : contains(f.labels[k].name, base_name)})
    IN  label_counter * 4

\* the size cut_in_line_data_mid gives the named data symbol d of function f
MidSize(f, d) ==
    LET base_name == replace_with_empty(to_lowercase(d.name), <<"v", "e", "c">>)
        label_counter ==
            Cardinality({k \in 1..Len(f.labels) :
                            contains(to_lowercase(f.labels[k].name), base_name)})
    IN  label_counter * 4

\* PE::cut_in_line_data_mid
cut_in_line_data_mid(fns) ==
    [k \in 1..Len(fns) |->
        [fns[k] EXCEPT !.data =
            [j \in 1..Len(fns[k].data) |->
                IF fns[k].data[j].name = <<>> THEN fns[k].data[j]
                ELSE [fns[k].data[j] EXCEPT !.size = MidSize(fns[k], fns[k].data[j])]]]]

\* the mutant of pdb_data: the children are the global records themselves, so
\* a size written to a child is written to the global record
pdb_data_shared(ds, fns) ==
    [i \in 1..Len(ds) |->
        LET cs == {c \in UNION {Range(fns[k].data) : k \in 1..Len(fns)} :
                      [c EXCEPT !.size = ds[i].size] = ds[i]}
        IN  IF cs = {} THEN ds[i]
            ELSE [ds[i] EXCEPT !.size = (CHOOSE c \in cs : \A x \in cs : x.size <= c.size).size]]

\* self.pdb.data after cut_in_line_data_end and cut_in_line_data_mid: both
\* loops borrow self.pdb.functions alone and write to function.data, whose
\* records are the clones create_relationships pushed
pdb_data(ds, fns) == ds

-----------------------------------------------------------------------------
(* b2g.rs: the passes over the byte vector.  A pass that indexes outside   *)
(* the vector panics (the process aborts); each pass comes with the        *)
(* predicate that says it does not.                                        *)

\* the mutant of trim_byte_vector: the front is not drained
trim_keep_front(bs, start, end) == Slice(bs, 0, end - start)

\* the mutant of trim_byte_vector: the tail is not drained
trim_keep_tail(bs, start, end) == Slice(bs, start, Len(bs))

\* trim_byte_vector: drain(..start), then drain((end - start)..)
trim_byte_vector(bs, start, end) == Slice(bs, start, end)

TrimOk(bs, start, end) == start <= end /\ end <= Len(bs)

\* the mutant of rebase_byte_vector: the offset is the base alone
rebase_constant(bs, base) == [i \in 1..Len(bs) |-> [bs[i] EXCEPT !.offset = base]]

\* rebase_byte_vector
rebase_byte_vector(bs, base) ==
    [i \in 1..Len(bs) |-> [bs[i] EXCEPT !.offset = (i - 1) + base]]

\* the data loop of set_byte_flags over the child data of one function
RECURSIVE SetDataFlags(_, _)
SetDataFlags(bs, ds) ==
    IF ds = <<>> THEN bs
    ELSE SetDataFlags(FlagRange(bs, Head(ds).offset, Head(ds).size, <<"DATA">>, FALSE),
                      Tail(ds))

\* PE::set_byte_flags / ELF::set_byte_flags (the ELF guard breaks where the
\* PE loop would index outside the vector: FlagRange stops at the end of it)
RECURSIVE set_byte_flags(_, _)
set_byte_flags(bs, fns) ==
    IF fns = <<>> THEN bs
    ELSE LET f == Head(fns)
         IN  set_byte_flags(
               FlagRange(SetDataFlags(bs, f.data), f.offset, f.size, <<"CODE">>, TRUE),
               Tail(fns))

DataFlagsOk(bs, fns) ==
    \A k \in 1..Len(fns) : \A j \in 1..Len(fns[k].data) :
        RangeOk(bs, fns[k].data[j].offset, fns[k].data[j].size)

\* PE::set_byte_flags does not index outside the vector
SetByteFlagsOkPE(bs, fns) ==
    /\ DataFlagsOk(bs, fns)
    /\ \A k \in 1..Len(fns) : RangeOk(bs, fns[k].offset, fns[k].size)

\* the function buffer of disassemble: the values of the bytes of f not flagged data
RECURSIVE function_buffer(_, _, _)
function_buffer(bs, f, offset) ==
    IF offset >= f.size \/ ~InRange(bs, f.offset + offset) THEN <<>>
    ELSE IF is_data(bs[f.offset + offset + 1])
         THEN function_buffer(bs, f, offset + 1)
         ELSE <<bs[f.offset + offset + 1].value>> \o function_buffer(bs, f, offset + 1)

\* the mutant of additional_offset: the sizes added so far are left out of
\* the comparison with the offset of the next data symbol
RECURSIVE additional_offset_no_carry(_, _, _, _)
additional_offset_no_carry(f, i, ds, acc) ==
    IF ds = <<>> THEN acc
    ELSE additional_offset_no_carry(f, i, Tail(ds),
            IF i.offset + f.offset >= Head(ds).offset
            THEN acc + Head(ds).size ELSE acc)

\* the mutant of additional_offset: an instruction at the data's own offset
\* is not moved behind the data
RECURSIVE additional_offset_strict(_, _, _, _)
additional_offset_strict(f, i, ds, acc) ==
    IF ds = <<>> THEN acc
    ELSE additional_offset_strict(f, i, Tail(ds),
            IF i.offset + f.offset + acc > Head(ds).offset
            THEN acc + Head(ds).size ELSE acc)

\* the loop over function.data that computes additional_offset for instruction i
RECURSIVE additional_offset(_, _, _, _)
additional_offset(f, i, ds, acc) ==
    IF ds = <<>> THEN acc
    ELSE additional_offset(f, i, Tail(ds),
            IF i.offset + f.offset + acc >= Head(ds).offset
            THEN acc + Head(ds).size ELSE acc)

\* the position of the leading byte of instruction i of function f (PE)
InsnPosPE(f, i) == additional_offset(f, i, f.data, 0) + f.offset + i.offset

\* the position of the leading byte of instruction i of function f (ELF)
InsnPosELF(f, i) == f.offset + i.offset

\* the mutant of FlagInsn: INSTRUCTION_END goes one byte too far
FlagInsnEndLate(bs, pos, i) ==
    FlagAt(FlagAt(FlagAt(bs, pos, <<"INSTRUCTION_START">>),
                  Min(pos + i.length, Len(bs) - 1), <<"INSTRUCTION_END">>),
           pos, i.flags)

\* the three set_flags calls for one instruction whose leading byte is at pos
FlagInsn(bs, pos, i) ==
    FlagAt(FlagAt(FlagAt(bs, pos, <<"INSTRUCTION_START">>),
                  pos + i.length - 1, <<"INSTRUCTION_END">>),
           pos, i.flags)

\* the loop over the instructions of one function; pos(i) is the leading position
RECURSIVE FlagInsns(_, _, _)
FlagInsns(bs, ps, is) ==
    IF is = <<>> THEN bs
    ELSE FlagInsns(FlagInsn(bs, Head(ps), Head(is)), Tail(ps), Tail(is))

\* the mutant of DisassembleFunction: FUNCTION_END goes to offset + size
DisassembleFunctionEndLate(bs, f, ps, is) ==
    LET b1 == FlagRange(bs, f.offset, f.size, <<"CODE", "READABLE", "EXECUTABLE">>, TRUE)
        b2 == FlagAt(b1, f.offset, <<"FUNCTION_START">>)
        b3 == FlagAt(b2, Min(f.offset + f.size, Len(bs) - 1), <<"FUNCTION_END">>)
    IN  FlagInsns(b3, ps, is)

\* the mutant of DisassembleFunction: FUNCTION_END goes to the last byte the
\* function had before cut_in_line_data_end shrank it
DisassembleFunctionEndOriginal(bs, f, ps, is) ==
    LET ends == {f.offset + f.size} \cup
                {f.data[j].offset + f.data[j].size :
                    j \in {i \in 1..Len(f.data) : f.data[i].name = <<>>}}
        top == CHOOSE e \in ends : \A x \in ends : x <= e
        b1 == FlagRange(bs, f.offset, f.size, <<"CODE", "READABLE", "EXECUTABLE">>, TRUE)
        b2 == FlagAt(b1, f.offset, <<"FUNCTION_START">>)
        b3 == FlagAt(b2, top - 1, <<"FUNCTION_END">>)
    IN  FlagInsns(b3, ps, is)

\* one iteration of the loop of disassemble over the functions, for function f
\* with the leading positions ps of its instructions is
DisassembleFunction(bs, f, ps, is) ==
    LET b1 == FlagRange(bs, f.offset, f.size, <<"CODE", "READABLE", "EXECUTABLE">>, TRUE)
        b2 == FlagAt(b1, f.offset, <<"FUNCTION_START">>)
        b3 == FlagAt(b2, f.offset + f.size - 1, <<"FUNCTION_END">>)
    IN  FlagInsns(b3, ps, is)

FnInsns(bs, f) == disassemble_capstone(function_buffer(bs, f, 0))

FnPositionsPE(bs, f) ==
    LET is == FnInsns(bs, f) IN [k \in 1..Len(is) |-> InsnPosPE(f, is[k])]

FnPositionsELF(bs, f) ==
    LET is == FnInsns(bs, f) IN [k \in 1..Len(is) |-> InsnPosELF(f, is[k])]

\* the loops and the two set_flags calls of one function that come before the
\* oracle is called do not index outside the vector
FunctionRangeOk(bs, f) ==
    /\ RangeOk(bs, f.offset, f.size)
    /\ InRange(bs, f.offset)
    /\ InRange(bs, f.offset + f.size - 1)

\* one function of disassemble does not index outside the vector
DisassembleFunctionOk(bs, f, ps, is) ==
    /\ RangeOk(bs, f.offset, f.size)
    /\ InRange(bs, f.offset)
    /\ InRange(bs, f.offset + f.size - 1)
    /\ \A k \in 1..Len(is) :
          InRange(bs, ps[k]) /\ InRange(bs, ps[k] + is[k].length - 1)

\* PE::disassemble: the state after the functions fns, from the state st
\* = [ok, fatal, calls, bytes, instructions, placed]; n counts the functions
\* done, calls the oracle calls made, err is the call that returns Err
RECURSIVE disassemble_pe(_, _, _, _)
disassemble_pe(st, fns, n, err) ==
    IF fns = <<>> \/ ~st.ok \/ st.fatal THEN st
    ELSE LET f  == Head(fns)
             is == FnInsns(st.bytes, f)
             ps == FnPositionsPE(st.bytes, f)
         IN  IF ~FunctionRangeOk(st.bytes, f)
             THEN [st EXCEPT !.ok = FALSE]
             ELSE IF st.calls + 1 = err
             THEN [st EXCEPT !.fatal = TRUE, !.calls = @ + 1]
             ELSE IF ~DisassembleFunctionOk(st.bytes, f, ps, is)
             THEN [st EXCEPT !.ok = FALSE]
             ELSE disassemble_pe(
                    [ok |-> TRUE, fatal |-> FALSE, calls |-> st.calls + 1,
                     bytes |-> DisassembleFunction(st.bytes, f, ps, is),
                     instructions |-> st.instructions \o is,
                     placed |-> st.placed \o
                        [k \in 1..Len(is) |-> [fn |-> n + 1, pos |-> ps[k]]]],
                    Tail(fns), n + 1, err)

\* ELF::disassemble: a function that runs past the vector ends the whole pass
\* (the guard returns), after its bytes inside the vector were flagged
RECURSIVE disassemble_elf(_, _, _, _)
disassemble_elf(st, fns, n, err) ==
    IF fns = <<>> \/ ~st.ok \/ st.fatal THEN st
    ELSE LET f  == Head(fns)
             is == FnInsns(st.bytes, f)
             ps == FnPositionsELF(st.bytes, f)
         IN  IF ~RangeOk(st.bytes, f.offset, f.size)
             THEN [st EXCEPT !.bytes =
                     FlagRange(st.bytes, f.offset, f.size,
                               <<"CODE", "READABLE", "EXECUTABLE">>, TRUE)]
             ELSE IF ~FunctionRangeOk(st.bytes, f)
             THEN [st EXCEPT !.ok = FALSE]
             ELSE IF st.calls + 1 = err
             THEN [st EXCEPT !.fatal = TRUE, !.calls = @ + 1]
             ELSE IF ~DisassembleFunctionOk(st.bytes, f, ps, is)
             THEN [st EXCEPT !.ok = FALSE]
             ELSE disassemble_elf(
                    [ok |-> TRUE, fatal |-> FALSE, calls |-> st.calls + 1,
                     bytes |-> DisassembleFunction(st.bytes, f, ps, is),
                     instructions |-> st.instructions \o is,
                     placed |-> st.placed \o
                        [k \in 1..Len(is) |-> [fn |-> n + 1, pos |-> ps[k]]]],
                    Tail(fns), n + 1, err)

-----------------------------------------------------------------------------
(* b2g.rs: alignment bytes, holes and the end of the section.              *)

\* the mutant of AlignScanBytes: the guard on code and data is missing
AlignScanNoGuard(bs) ==
    [i \in 1..Len(bs) |->
        IF bs[i].value = 204
        THEN set_flags(bs[i], <<"INSTRUCTION_ALIGNMENT">>)
        ELSE bs[i]]

\* the first loop of detect_alignment_bytes: 0xCC outside code and data
AlignScanBytes(bs) ==
    [i \in 1..Len(bs) |->
        IF is_code(bs[i]) \/ is_data(bs[i]) THEN bs[i]
        ELSE IF bs[i].value = 204
             THEN set_flags(bs[i], <<"INSTRUCTION_ALIGNMENT">>)
             ELSE bs[i]]

\* the loop of detect_holes from 0-based position offset on; the hole that is
\* open at the end of the vector is pushed after the loop.  Its start,
\* len - 1 - hole_size, is below 0 when the hole is the whole vector: the
\* subtraction overflows usize (a panic in a debug build, a start beyond any
\* index in a release build); the model keeps the negative number and the
\* caller that slices with it panics.
RECURSIVE HoleScan(_, _, _, _)
HoleScan(bs, offset, hole_size, holes) ==
    IF offset = Len(bs)
    THEN IF hole_size > 0
         THEN Append(holes, [start |-> Len(bs) - 1 - hole_size,
                             end   |-> Len(bs) - 1,
                             size  |-> hole_size])
         ELSE holes
    ELSE IF bs[offset + 1].flags = <<>>
         THEN HoleScan(bs, offset + 1, hole_size + 1, holes)
         ELSE HoleScan(bs, offset + 1, 0,
                IF hole_size > 0
                THEN Append(holes, [start |-> offset - hole_size,
                                    end   |-> offset - 1,
                                    size  |-> hole_size])
                ELSE holes)

\* PE::detect_holes / ELF::detect_holes
detect_holes(bs) == HoleScan(bs, 0, 0, <<>>)

\* the slice of detect_alignment_bytes: self.bytes[hole.start..hole.end]
hole_buffer(bs, hole) == Values(Slice(bs, hole.start, hole.end))

HoleSliceOk(bs, hole) ==
    hole.start >= 0 /\ hole.start <= hole.end /\ hole.end <= Len(bs)

\* the loop over the instructions of one hole
RECURSIVE FlagAlignment(_, _, _)
FlagAlignment(bs, hole, is) ==
    IF is = <<>> THEN bs
    ELSE FlagAlignment(
            IF insn_is_alignment(Head(is))
            THEN FlagRange(bs, hole.start + Head(is).offset, Head(is).length,
                           <<"INSTRUCTION_ALIGNMENT">>, FALSE)
            ELSE bs,
            hole, Tail(is))

\* the second loop of detect_alignment_bytes, over the holes found before it
RECURSIVE AlignHolesLoop(_, _)
AlignHolesLoop(bs, holes) ==
    IF holes = <<>> THEN bs
    ELSE AlignHolesLoop(
            FlagAlignment(bs, Head(holes),
                          disassemble_capstone(hole_buffer(bs, Head(holes)))),
            Tail(holes))

AlignHolesOk(bs, holes) == \A k \in 1..Len(holes) : HoleSliceOk(bs, holes[k])

\* the oracle call for one of the holes returns Err, and the slices of the
\* holes up to it were inside the vector: the pass ends in exit(1)
AlignHolesFatal(bs, holes, calls, err) ==
    \E k \in 1..Len(holes) :
        /\ calls + k = err
        /\ \A j \in 1..k : HoleSliceOk(bs, holes[j])

\* the backward loop of detect_end_of_section from 0-based position p down:
\* the section size that is left
RECURSIVE SectionSize(_, _, _)
SectionSize(bs, p, section_size) ==
    IF p < 0 THEN section_size
    ELSE IF is_code(bs[p + 1]) \/ is_data(bs[p + 1]) THEN section_size
         ELSE SectionSize(bs, p - 1,
                IF bs[p + 1].value = 0 THEN section_size - 1 ELSE section_size)

\* PE::detect_end_of_section / ELF::detect_end_of_section
detect_end_of_section(bs) == SubSeq(bs, 1, SectionSize(bs, Len(bs) - 1, Len(bs)))

-----------------------------------------------------------------------------
(* dumper.rs: the plain emitter and the structured dump.                   *)

\* pdb.image_base / dwarf.image_base of an x86 binary
image_base == 4194304

\* the two header lines plain::dump writes for a section
section_header(s) ==
    <<[kind |-> "section", name |-> s.name],
      [kind |-> "header", name |-> s.name, va |-> s.va, size |-> s.raw_data_size]>>

\* the branch of plain::dump the first byte of a run takes
byte_class(b) ==
    IF is_code(b) THEN "C"
    ELSE IF is_data(b) THEN "D"
    ELSE IF is_alignment(b) THEN "N"
    ELSE "U"

\* the mutant of continues: a later byte goes on with the run when the
\* branch it would take as a first byte is the branch of the run
continues_same_class(b, cls) == byte_class(b) = cls

\* the test of the inner for loop of the branch cls on a later byte
continues(b, cls) ==
    /\ ~HasFlag(b, "INSTRUCTION_START")
    /\ is_code(b) = (cls = "C")
    /\ is_data(b) = (cls = "D")
    /\ is_alignment(b) = (cls = "N")

\* the inner for loop from 0-based index j on: the number of bytes it takes
RECURSIVE continuations(_, _, _)
continuations(bs, j, cls) ==
    IF j < Len(bs) /\ continues(bs[j + 1], cls)
    THEN 1 + continuations(bs, j + 1, cls)
    ELSE 0

\* the characters of the first byte of a run (the code branch tests the
\* flags in the order F, N, J, 3, R, I and closes with C)
first_chars(b) ==
    IF is_code(b)
    THEN (IF HasFlag(b, "FUNCTION_START") THEN <<"F">> ELSE <<>>)
         \o (IF is_alignment(b) THEN <<"N">> ELSE <<>>)
         \o (IF HasFlag(b, "INSTRUCTION_JUMP") THEN <<"J">> ELSE <<>>)
         \o (IF HasFlag(b, "INSTRUCTION_INT") THEN <<"3">> ELSE <<>>)
         \o (IF HasFlag(b, "INSTRUCTION_RET") THEN <<"R">> ELSE <<>>)
         \o (IF HasFlag(b, "INSTRUCTION_START") THEN <<"I">> ELSE <<>>)
         \o <<"C">>
    ELSE <<byte_class(b)>>

\* the mutant of run_end: the i += 1 for the first byte of a run is missing
run_end_no_first(bs, i) == i + continuations(bs, i + 1, byte_class(bs[i + 1]))

\* the value of i after the iteration of the while loop that starts at i
run_end(bs, i) == i + 1 + continuations(bs, i + 1, byte_class(bs[i + 1]))

\* the line of the run that starts at i: "@0x{:012X}: " with the address, then
\* "[", the characters of the first byte, "]" and one character per later byte
run_line(bs, i, base) ==
    LET cls == byte_class(bs[i + 1])
    IN  [kind    |-> "run",
         address |-> bs[i + 1].offset + base,
         flags   |-> <<"[">> \o first_chars(bs[i + 1]) \o <<"]">>
                     \o [k \in 1..continuations(bs, i + 1, cls) |-> cls]]

\* the decimal digits serde_yaml writes for an unsigned integer
DigitChars == <<"0", "1", "2", "3", "4", "5", "6", "7", "8", "9">>

RECURSIVE to_decimal(_)
to_decimal(n) ==
    IF n < 10 THEN <<DigitChars[n + 1]>>
    ELSE Append(to_decimal(n \div 10), DigitChars[(n % 10) + 1])

\* the mutant of serialize_byte: offset and value change places
serialize_byte_swapped(b) ==
    [offset |-> to_decimal(b.value), value |-> to_decimal(b.offset), flags |-> b.flags]

\* Serialize for Byte: offset and value as decimal scalars, flags by name
serialize_byte(b) ==
    [offset |-> to_decimal(b.offset), value |-> to_decimal(b.value), flags |-> b.flags]

\* the mutant of yaml_dump: bytes_identified counts the code bytes only
yaml_dump_code_only(bs, fns, is) ==
    [total_bytes      |-> Len(bs),
     bytes_identified |-> Cardinality({i \in 1..Len(bs) : is_code(bs[i])}),
     bytes            |-> [i \in 1..Len(bs) |-> serialize_byte(bs[i])],
     functions        |-> fns,
     instructions     |-> is]

\* yaml::dump: the Dump record as it is serialized (version, timestamp,
\* architecture and accuracy are not modelled)
yaml_dump(bs, fns, is) ==
    [total_bytes      |-> Len(bs),
     bytes_identified |-> Cardinality({i \in 1..Len(bs) : Len(bs[i].flags) > 0}),
     bytes            |-> [i \in 1..Len(bs) |-> serialize_byte(bs[i])],
     functions        |-> fns,
     instructions     |-> is]

-----------------------------------------------------------------------------
(* The state machine: process() runs the passes one after the other.       *)

\* PE::process rebases to 0x1000
PEBase == 4096

\* the mutant of find_text: the first section, whatever its name
find_first(secs) == IF secs = <<>> THEN <<>> ELSE <<secs[1]>>

\* sections.iter().find(|s| s.name == ".text"): None is <<>>, Some(s) is <<s>>
find_text(secs) ==
    IF \E k \in 1..Len(secs) : secs[k].name = ".text"
    THEN <<secs[CHOOSE k \in 1..Len(secs) :
                   /\ secs[k].name = ".text"
                   /\ \A j \in 1..(k - 1) : secs[j].name # ".text"]>>
    ELSE <<>>

HasText == find_text(sections) # <<>>

\* the section process() works on
text_section == find_text(sections)[1]

\* the base process() rebases to
RebaseBase == IF format = "PE" THEN PEBase ELSE text_section.va

\* the order of the passes in PE::process and in ELF::process
PassAfter(fmt, p) ==
    IF fmt = "PE"
    THEN CASE p = "select" -> "trim"
           [] p = "trim" -> "rebase"
           [] p = "rebase" -> "prune"
           [] p = "prune" -> "relate"
           [] p = "relate" -> "cut_end"
           [] p = "cut_end" -> "cut_mid"
           [] p = "cut_mid" -> "set_flags"
           [] p = "set_flags" -> "disassemble"
           [] p = "disassemble" -> "align_scan"
           [] p = "align_scan" -> "align_holes"
           [] p = "align_holes" -> "end_of_section"
           [] p = "end_of_section" -> "emit"
    ELSE CASE p = "select" -> "prune"
           [] p = "prune" -> "set_flags"
           [] p = "set_flags" -> "disassemble"
           [] p = "disassemble" -> "trim"
           [] p = "trim" -> "rebase"
           [] p = "rebase" -> "align_scan"
           [] p = "align_scan" -> "align_holes"
           [] p = "align_holes" -> "end_of_section"
           [] p = "end_of_section" -> "emit"

\* read_pe / read_elf: one Byte per file byte, offset = file offset, no flags
read_bytes(f) == [i \in 1..Len(f) |-> [offset |-> i - 1, value |-> f[i], flags |-> <<>>]]

\* process(): grab the text section, or exit(1)
SelectText ==
    /\ pc = "select"
    /\ pc' = IF HasText THEN PassAfter(format, "select") ELSE "fatal"
    /\ UNCHANGED <<format, sections, file, bytes, functions, data, labels,
                   instructions, placed, written,
                   plain, sec, cursor, yaml, cs_err, cs_calls>>

Trim ==
    /\ pc = "trim"
    /\ LET start == text_section.raw_data_offset
           end   == text_section.raw_data_offset + text_section.raw_data_size
       IN  IF TrimOk(bytes, start, end)
           THEN /\ bytes' = trim_byte_vector(bytes, start, end)
                /\ pc' = PassAfter(format, "trim")
           ELSE /\ bytes' = bytes
                /\ pc' = "panic"
    /\ UNCHANGED <<format, sections, file, functions, data, labels,
                   instructions, placed, written,
                   plain, sec, cursor, yaml, cs_err, cs_calls>>

Rebase ==
    /\ pc = "rebase"
    /\ bytes' = rebase_byte_vector(bytes, RebaseBase)
    /\ pc' = PassAfter(format, "rebase")
    /\ UNCHANGED <<format, sections, file, functions, data, labels,
                   instructions, placed, written,
                   plain, sec, cursor, yaml, cs_err, cs_calls>>

Prune ==
    /\ pc = "prune"
    /\ functions' = preprocess_functions(functions)
    /\ pc' = PassAfter(format, "prune")
    /\ UNCHANGED <<format, sections, file, bytes, data, labels,
                   instructions, placed, written,
                   plain, sec, cursor, yaml, cs_err, cs_calls>>

Relate ==
    /\ pc = "relate"
    /\ functions' = create_relationships(functions, labels, data)
    /\ pc' = PassAfter(format, "relate")
    /\ UNCHANGED <<format, sections, file, bytes, data, labels,
                   instructions, placed, written,
                   plain, sec, cursor, yaml, cs_err, cs_calls>>

CutEnd ==
    /\ pc = "cut_end"
    /\ functions' = cut_in_line_data_end(functions)
    /\ data' = pdb_data(data, functions')
    /\ pc' = PassAfter(format, "cut_end")
    /\ UNCHANGED <<format, sections, file, bytes, labels,
                   instructions, placed, written,
                   plain, sec, cursor, yaml, cs_err, cs_calls>>

CutMid ==
    /\ pc = "cut_mid"
    /\ functions' = cut_in_line_data_mid(functions)
    /\ data' = pdb_data(data, functions')
    /\ pc' = PassAfter(format, "cut_mid")
    /\ UNCHANGED <<format, sections, file, bytes, labels,
                   instructions, placed, written,
                   plain, sec, cursor, yaml, cs_err, cs_calls>>

SetFlags ==
    /\ pc = "set_flags"
    /\ IF (format = "PE" /\ SetByteFlagsOkPE(bytes, functions))
          \/ (format = "ELF" /\ DataFlagsOk(bytes, functions))
       THEN /\ bytes' = set_byte_flags(bytes, functions)
            /\ pc' = PassAfter(format, "set_flags")
       ELSE /\ bytes' = bytes
            /\ pc' = "panic"
    /\ UNCHANGED <<format, sections, file, functions, data, labels,
                   instructions, placed, written,
                   plain, sec, cursor, yaml, cs_err, cs_calls>>

\* disassemble(): a panic or the exit(1) on an oracle error ends the process,
\* and what the pass had written to memory by then is gone with it
Disassemble ==
    /\ pc = "disassemble"
    /\ LET st0 == [ok |-> TRUE, fatal |-> FALSE, calls |-> cs_calls, bytes |-> bytes,
                   instructions |-> instructions, placed |-> placed]
           st  == IF format = "PE" THEN disassemble_pe(st0, functions, 0, cs_err)
                  ELSE disassemble_elf(st0, functions, 0, cs_err)
       IN  IF st.ok /\ ~st.fatal
           THEN /\ bytes' = st.bytes
                /\ instructions' = st.instructions
                /\ placed' = st.placed
                /\ cs_calls' = st.calls
                /\ pc' = PassAfter(format, "disassemble")
           ELSE /\ UNCHANGED <<bytes, instructions, placed>>
                /\ cs_calls' = st.calls
                /\ pc' = IF st.fatal THEN "fatal" ELSE "panic"
    /\ UNCHANGED <<format, sections, file, functions, data, labels, written,
                   plain, sec, cursor, yaml, cs_err>>

\* detect_alignment_bytes, first loop
AlignScan ==
    /\ pc = "align_scan"
    /\ bytes' = AlignScanBytes(bytes)
    /\ pc' = PassAfter(format, "align_scan")
    /\ UNCHANGED <<format, sections, file, functions, data, labels,
                   instructions, placed, written,
                   plain, sec, cursor, yaml, cs_err, cs_calls>>

\* detect_alignment_bytes, detect_holes and the loop over the holes
AlignHoles ==
    /\ pc = "align_holes"
    /\ LET holes == detect_holes(bytes)
       IN  IF AlignHolesFatal(bytes, holes, cs_calls, cs_err)
           THEN /\ bytes' = bytes
                /\ cs_calls' = cs_err
                /\ pc' = "fatal"
           ELSE IF AlignHolesOk(bytes, holes)
           THEN /\ bytes' = AlignHolesLoop(bytes, holes)
                /\ cs_calls' = cs_calls + Len(holes)
                /\ pc' = PassAfter(format, "align_holes")
           ELSE /\ bytes' = bytes
                /\ cs_calls' = cs_calls
                /\ pc' = "panic"
    /\ UNCHANGED <<format, sections, file, functions, data, labels,
                   instructions, placed, written, plain, sec, cursor, yaml, cs_err>>

EndOfSection ==
    /\ pc = "end_of_section"
    /\ bytes' = detect_end_of_section(bytes)
    /\ pc' = PassAfter(format, "end_of_section")
    /\ UNCHANGED <<format, sections, file, functions, data, labels,
                   instructions, placed, written,
                   plain, sec, cursor, yaml, cs_err, cs_calls>>

\* print() calls detect_holes: when the whole vector is one hole its start
\* overflows, which panics in a build with overflow checks
PrintOverflows == \E k \in 1..Len(detect_holes(bytes)) : detect_holes(bytes)[k].start < 0

\* print(); process() goes on to dumper::plain::dump_pe / dump_elf
Emit ==
    /\ pc = "emit"
    /\ pc' \in (IF PrintOverflows THEN {"plain", "panic"} ELSE {"plain"})
    /\ UNCHANGED <<format, sections, file, bytes, functions, data, labels,
                   instructions, placed, written, plain, sec, cursor, yaml,
                   cs_err, cs_calls>>

\* plain::dump, one iteration of `for section in sections`: the two header
\* lines, and for .text the while loop over the bytes (PlainRun)
PlainSection ==
    /\ pc = "plain"
    /\ sec < Len(sections)
    /\ plain' = plain \o section_header(sections[sec + 1])
    /\ IF sections[sec + 1].name = ".text" /\ 0 < Len(bytes)
       THEN /\ pc' = "plain_text"
            /\ cursor' = 0
            /\ sec' = sec
       ELSE /\ pc' = "plain"
            /\ cursor' = cursor
            /\ sec' = sec + 1
    /\ UNCHANGED <<format, sections, file, bytes, functions, data, labels,
                   instructions, placed, written, yaml, cs_err, cs_calls>>

\* plain::dump, one iteration of `while i < bytes.len()`: one line
PlainRun ==
    /\ pc = "plain_text"
    /\ cursor < Len(bytes)
    /\ plain' = Append(plain, run_line(bytes, cursor, image_base))
    /\ cursor' = run_end(bytes, cursor)
    /\ IF cursor' < Len(bytes)
       THEN pc' = "plain_text" /\ sec' = sec
       ELSE pc' = "plain" /\ sec' = sec + 1
    /\ UNCHANGED <<format, sections, file, bytes, functions, data, labels,
                   instructions, placed, written, yaml, cs_err, cs_calls>>

\* plain::dump, fs::write of <stem>.txt; process() goes on to yaml::dump
PlainWrite ==
    /\ pc = "plain"
    /\ sec = Len(sections)
    /\ written' = written \cup {"txt"}
    /\ pc' = "yaml"
    /\ UNCHANGED <<format, sections, file, bytes, functions, data, labels,
                   instructions, placed, plain, sec, cursor, yaml, cs_err, cs_calls>>

\* yaml::dump: build the Dump record, serialize it, fs::write of <stem>.yaml
YamlDump ==
    /\ pc = "yaml"
    /\ yaml' = <<yaml_dump(bytes, functions, instructions)>>
    /\ written' = written \cup {"yaml"}
    /\ pc' = "done"
    /\ UNCHANGED <<format, sections, file, bytes, functions, data, labels,
                   instructions, placed, plain, sec, cursor, cs_err, cs_calls>>

Next ==
    \/ SelectText
    \/ Trim
    \/ Rebase
    \/ Prune
    \/ Relate
    \/ CutEnd
    \/ CutMid
    \/ SetFlags
    \/ Disassemble
    \/ AlignScan
    \/ AlignHoles
    \/ EndOfSection
    \/ Emit
    \/ PlainSection
    \/ PlainRun
    \/ PlainWrite
    \/ YamlDump

-----------------------------------------------------------------------------
(* Initial states: the binary and the symbol dump, drawn from bounded sets.*)
(* The file is raw_data_offset bytes of header, the .text bytes and a      *)
(* trailer; header and trailer bytes are 0xC3.                             *)

FileOf(ro, text, tr) == [i \in 1..ro |-> 195] \o text \o [i \in 1..tr |-> 195]

TextSec(ro, n, va) ==
    [name |-> ".text", va |-> va, raw_data_offset |-> ro, raw_data_size |-> n]

Fn(nm, o, sz, seg) ==
    [name |-> nm, offset |-> o, segment |-> seg, size |-> sz,
     labels |-> <<>>, data |-> <<>>]

\* the function symbols at offsets lo..hi whose end is at most top
FnRecs(nm, lo, hi, top, segs) ==
    {Fn(nm, o, sz, sg) : o \in lo..hi, sz \in 0..top, sg \in segs}

\* load_pdb / load_elf: sorted by offset (identical records are removed; the
\* model's two functions differ in their names)
FnLists(lo, hi, top, segs) ==
    {<<>>}
    \cup {<<f>> : f \in {x \in FnRecs("f", lo, hi, top, {1}) : x.offset + x.size <= top}}
    \cup {<<f, g>> : f \in {x \in FnRecs("f", lo, hi, top, {1}) : x.offset + x.size <= top},
                     g \in {x \in FnRecs("g", lo, hi, top, segs) : x.offset + x.size <= top}}

Sorted(fns) == \A k \in 1..(Len(fns) - 1) : fns[k].offset <= fns[k + 1].offset

Disjoint(fns) ==
    \A k \in 1..(Len(fns) - 1) : fns[k].offset + fns[k].size <= fns[k + 1].offset

\* parse_data: size 0
DataLists(names, lo, hi) ==
    {<<>>} \cup {<<[name |-> nm, offset |-> o, segment |-> 1, size |-> 0]>> :
                    nm \in names, o \in lo..hi}

LabelLists(names, lo, hi) ==
    {<<>>} \cup {<<[name |-> nm, offset |-> o, segment |-> 1]>> :
                    nm \in names, o \in lo..hi}

ConstTexts(n, vals) == {[i \in 1..n |-> v] : v \in vals}

AllTexts(n, vals) == [1..n -> vals]

\* the state new() leaves: the bytes as read, nothing disassembled or written
InitRun ==
    /\ bytes = read_bytes(file)
    /\ instructions = <<>>
    /\ placed = <<>>
    /\ written = {}
    /\ plain = <<>>
    /\ sec = 0
    /\ cursor = 0
    /\ yaml = <<>>
    /\ cs_calls = 0
    /\ pc = "select"

\* a run in which no oracle call returns Err
InitCommon ==
    /\ InitRun
    /\ cs_err = 0

\* Spec: both containers; the file layout varies (header, trailer, va), the
\* text is constant, up to two functions, one data symbol and one label
InitPE ==
    /\ format = "PE"
    /\ \E ro \in 0..MaxRawOff, tr \in 0..MaxTrailer,
          text \in ConstTexts(GenTextLen, {0, 144, 204}) :
         /\ file = FileOf(ro, text, tr)
         /\ sections = <<TextSec(ro, GenTextLen, PEBase)>>
    /\ functions \in {fl \in FnLists(0, GenTextLen - 1, GenTextLen, {1, 2}) : Sorted(fl)}
    /\ data \in DataLists({<<>>, <<"T", "a", "b">>}, 1, GenTextLen - 1)
    /\ labels \in LabelLists({<<"t", "a", "b", "0">>}, 1, GenTextLen - 1)
    /\ InitCommon

\* the function offsets of an ELF index the whole file and may run past it
InitELF ==
    /\ format = "ELF"
    /\ \E ro \in 0..MaxRawOff, tr \in 0..MaxTrailer, va \in 0..MaxVa,
          text \in ConstTexts(GenTextLen, {0, 144, 204}) :
         /\ file = FileOf(ro, text, tr)
         /\ sections = <<TextSec(ro, GenTextLen, va)>>
         /\ functions \in {fl \in FnLists(0, ro + GenTextLen + tr - 1,
                                          ro + GenTextLen + tr + 1, {1}) : Sorted(fl)}
    /\ data = <<>>
    /\ labels = <<>>
    /\ InitCommon

Init == InitPE \/ InitELF

Spec == Init /\ [][Next]_vars

\* SpecSym: a PE whose symbol tables vary over a text of one-byte instructions
InitSym ==
    /\ format = "PE"
    /\ file = FileOf(0, [i \in 1..SymTextLen |-> 144], 0)
    /\ sections = <<TextSec(0, SymTextLen, PEBase)>>
    /\ functions \in {fl \in FnLists(0, SymTextLen - 1, SymTextLen, {1}) : Sorted(fl)}
    /\ data \in DataLists({<<>>, <<"T", "a", "b">>}, 1, SymTextLen - 1)
    /\ labels \in LabelLists({<<"t", "a", "b", "0">>}, 1, SymTextLen - 1)
    /\ InitCommon

SpecSym == InitSym /\ [][Next]_vars

\* SpecInsn: a PE with one function to the end of the text, at most one data
\* symbol and one label near its start, over every text of add and nop bytes
InitInsn ==
    /\ format = "PE"
    /\ \E text \in AllTexts(InsnTextLen, {0, 144}) :
         /\ file = FileOf(0, text, 0)
         /\ sections = <<TextSec(0, InsnTextLen, PEBase)>>
    /\ functions \in {<<Fn("f", o, InsnTextLen - o, 1)>> : o \in 0..1}
    /\ data \in DataLists({<<>>, <<"T", "a", "b">>}, 1, 2)
    /\ labels \in LabelLists({<<"t", "a", "b", "0">>}, 2, 2)
    /\ InitCommon

SpecInsn == InitInsn /\ [][Next]_vars

\* SpecCut: a PE with one or two functions (which may overlap), an empty-name
\* data symbol, at most one named data symbol in front of it in the dump and
\* at most one label, over a text of one-byte instructions
InitCut ==
    /\ format = "PE"
    /\ file = FileOf(0, [i \in 1..CutTextLen |-> 144], 0)
    /\ sections = <<TextSec(0, CutTextLen, PEBase)>>
    /\ functions \in {fl \in FnLists(0, CutTextLen - 1, CutTextLen, {1}) :
                        /\ fl # <<>>
                        /\ Sorted(fl)
                        /\ \A k \in 1..Len(fl) : fl[k].size > 0}
    /\ data \in {n \o e : n \in DataLists({<<"T", "a", "b">>}, 1, 3),
                           e \in DataLists({<<>>}, 1, CutTextLen - 1) \ {<<>>}}
    /\ labels \in LabelLists({<<"t", "a", "b", "0">>}, 2, 2)
    /\ InitCommon

SpecCut == InitCut /\ [][Next]_vars

\* the names of a jump table and of its k-th case label, spelled with
\* underscores ("mset_tab_0") or in the table's own spelling ("msetTab0")
MsetTabVec == <<"M", "s", "e", "t", "T", "a", "b", "V", "e", "c">>

TabLabelName(style, k) ==
    IF style = "snake"
    THEN <<"m", "s", "e", "t", "_", "t", "a", "b", "_">> \o to_decimal(k)
    ELSE <<"m", "s", "e", "t", "T", "a", "b">> \o to_decimal(k)

\* n labels of the table, the k-th at offset k + 1
TabLabels(style, n) ==
    [k \in 1..n |-> [name |-> TabLabelName(style, k - 1), offset |-> k, segment |-> 1]]

\* a text of 6-byte instructions: 00 90 90 90 90 90 is add [rax + disp32], dl
TabText == [i \in 1..TabTextLen |-> IF i % 6 = 1 THEN 0 ELSE 144]

\* SpecTab: a PE with one function to the end of the text, the jump table
\* MsetTabVec near its start and up to MaxTabLabels labels of either spelling
InitTab ==
    /\ format = "PE"
    /\ file = FileOf(0, TabText, 0)
    /\ sections = <<TextSec(0, TabTextLen, PEBase)>>
    /\ functions \in {<<Fn("f", o, TabTextLen - o, 1)>> : o \in 0..1}
    /\ data \in {<<[name |-> MsetTabVec, offset |-> o, segment |-> 1, size |-> 0]>> :
                    o \in 1..3}
    /\ labels \in {TabLabels(style, n) : style \in {"snake", "camel"}, n \in 0..MaxTabLabels}
    /\ InitCommon

SpecTab == InitTab /\ [][Next]_vars

\* names of a jump table with "vec" at the front, at the end and at both ends
VecTab == <<"V", "e", "c", "T", "a", "b">>

TabVec == <<"T", "a", "b", "V", "e", "c">>

VecTabVec == <<"V", "e", "c", "T", "a", "b", "V", "e", "c">>

\* SpecVec: a PE with one function over the whole text, a named jump table
\* near its start and at most one label, named after the table with or
\* without the table's "vec"
InitVec ==
    /\ format = "PE"
    /\ file = FileOf(0, [i \in 1..VecTextLen |-> 144], 0)
    /\ sections = <<TextSec(0, VecTextLen, PEBase)>>
    /\ functions = <<Fn("f", 0, VecTextLen, 1)>>
    /\ data \in DataLists({VecTab, TabVec, VecTabVec}, 1, 2) \ {<<>>}
    /\ labels \in LabelLists({<<"t", "a", "b", "0">>, <<"v", "e", "c", "T", "a", "b", "0">>},
                              2, 3)
    /\ InitCommon

SpecVec == InitVec /\ [][Next]_vars

\* the name of the i-th jump table of a function and of its case label
TableName(i) ==
    CASE i = 1 -> <<"T", "a", "b">>
      [] i = 2 -> <<"J", "m", "p">>
      [] OTHER -> <<"S", "w", "t">>

TableLabel(i) == [name |-> to_lowercase(TableName(i)) \o <<"0">>, offset |-> i, segment |-> 1]

\* n tables at the offsets os[1] < ... < os[n]
Tables(os) ==
    [i \in 1..Len(os) |-> [name |-> TableName(i), offset |-> os[i], segment |-> 1, size |-> 0]]

\* SpecMulti: a PE with one function to the end of the text and up to
\* MaxTables jump tables in it at ascending offsets, each with its case label
\* or without, over a text of 1-byte and a text of 2-byte instructions
InitMulti ==
    /\ format = "PE"
    /\ \E text \in ConstTexts(MultiTextLen, {0, 144}) : file = FileOf(0, text, 0)
    /\ sections = <<TextSec(0, MultiTextLen, PEBase)>>
    /\ functions \in {<<Fn("f", o, MultiTextLen - o, 1)>> : o \in 0..1}
    /\ \E n \in 1..MaxTables :
          /\ data \in {Tables(os) : os \in {x \in [1..n -> 1..(MultiTextLen - 1)] :
                                                \A i \in 1..(n - 1) : x[i] < x[i + 1]}}
          /\ labels \in {SelectSeq([i \in 1..n |-> TableLabel(i)], LAMBDA l : l \in S) :
                            S \in SUBSET {TableLabel(i) : i \in 1..n}}
    /\ InitCommon

SpecMulti == InitMulti /\ [][Next]_vars

\* a section that is not the text section, over the same file bytes
DataSec(n) == [name |-> ".data", va |-> 0, raw_data_offset |-> 0, raw_data_size |-> n]

\* SpecSec: both containers; the section table has a .text section or not,
\* and one of the oracle calls may return Err
InitSec ==
    /\ format \in {"PE", "ELF"}
    /\ \E text \in ConstTexts(SecTextLen, {0, 144}) : file = FileOf(0, text, 0)
    /\ sections \in {<<>>,
                      <<DataSec(SecTextLen)>>,
                      <<TextSec(0, SecTextLen, 0)>>,
                      <<DataSec(SecTextLen), TextSec(0, SecTextLen, 0)>>,
                      <<TextSec(0, SecTextLen, 0), DataSec(SecTextLen)>>}
    /\ functions \in {fl \in FnLists(0, SecTextLen - 1, SecTextLen, {1}) :
                        /\ Disjoint(fl)
                        /\ \A k \in 1..Len(fl) : fl[k].size > 0}
    /\ data = <<>>
    /\ labels = <<>>
    /\ cs_err \in 0..MaxCsErr
    /\ InitRun

SpecSec == InitSec /\ [][Next]_vars

\* SpecPad: a PE with up to two functions that do not overlap and no data,
\* over every text: the bytes between and behind the functions vary
InitPad ==
    /\ format = "PE"
    /\ \E text \in AllTexts(PadTextLen, {0, 144, 204}) :
         /\ file = FileOf(0, text, 0)
         /\ sections = <<TextSec(0, PadTextLen, PEBase)>>
    /\ functions \in {fl \in FnLists(0, PadTextLen - 1, PadTextLen, {1}) :
                        /\ Disjoint(fl)
                        /\ \A k \in 1..Len(fl) : fl[k].size > 0}
    /\ data = <<>>
    /\ labels = <<>>
    /\ InitCommon

SpecPad == InitPad /\ [][Next]_vars

\* plain::dump is sequential code: a step of it that can be taken is taken
SpecPadFair ==
    SpecPad /\ WF_vars(PlainSection) /\ WF_vars(PlainRun) /\ WF_vars(PlainWrite)

-----------------------------------------------------------------------------
(* The claims.                                                             *)

NoDuplicates(s) == \A j, k \in 1..Len(s) : s[j] = s[k] => j = k

\* the passes of process() that run before the byte vector is trimmed
BeforeTrim ==
    IF format = "PE" THEN pc \in {"select", "trim"}
    ELSE pc \in {"select", "prune", "set_flags", "disassemble", "trim"}

\* the number of bytes at source positions lo..hi-1 that carry flag fl
CountFlag(bs, lo, hi, fl) ==
    Cardinality({p \in lo..(hi - 1) : InRange(bs, p) /\ HasFlag(bs[p + 1], fl)})

\* C1: after the PE pipeline has completed, no byte of the buffer carries
\* both CODE and DATA, whatever functions, data symbols and labels came in
\* (overlapping and nested functions included).
C1_NoByteCodeAndData ==
    (format = "PE" /\ pc = "done") =>
        \A i \in 1..Len(bytes) : ~(is_code(bytes[i]) /\ is_data(bytes[i]))

\* C2: after the pipeline has completed (PE and ELF), the byte at index i
\* has offset base + i, base being 0x1000 for a PE and the va of .text for
\* an ELF; alignment detection and the end-of-section cut keep it so.
C2_OffsetIsBasePlusIndex ==
    pc = "done" =>
        \A i \in 1..Len(bytes) :
            bytes[i].offset = (IF format = "PE" THEN 4096 ELSE text_section.va) + (i - 1)

C2_Witness ==
    /\ pc = "done"
    /\ format = "ELF"
    /\ text_section.va # text_section.raw_data_offset
    /\ Len(bytes) >= 2
    /\ Len(bytes) < text_section.raw_data_size
    /\ \E i \in 1..Len(bytes) : is_code(bytes[i])

\* C3: no pass changes the value of a byte: while process() runs and when it
\* is done, the byte at index i holds the file byte it was read from, which
\* after the trim is the file byte at raw_data_offset + i of .text.
C3_ValuesAreFileBytes ==
    pc \notin {"fatal", "panic"} =>
        LET first == IF BeforeTrim THEN 0 ELSE text_section.raw_data_offset
        IN  /\ BeforeTrim \/ Len(bytes) <= text_section.raw_data_size
            /\ \A i \in 1..Len(bytes) : bytes[i].value = file[first + i]

C3_Witness ==
    /\ pc = "done"
    /\ text_section.raw_data_offset > 0
    /\ Len(bytes) = text_section.raw_data_size
    /\ Len(file) > text_section.raw_data_offset + text_section.raw_data_size
    /\ \E i \in 1..Len(bytes) : bytes[i].flags # <<>>

\* the final ranges of functions k and j of fns share no position
RangesApart(fns, k, j) ==
    \/ fns[k].offset + fns[k].size <= fns[j].offset
    \/ fns[j].offset + fns[j].size <= fns[k].offset

OneStartOneEnd(bs, f) ==
    /\ CountFlag(bs, f.offset, f.offset + f.size, "FUNCTION_START") = 1
    /\ CountFlag(bs, f.offset, f.offset + f.size, "FUNCTION_END") = 1

\* C4 as claimed: after the PE pipeline, every surviving function has in
\* its range [offset, offset + size) exactly one byte with FUNCTION_START
\* and exactly one with FUNCTION_END, overlapping and nested functions
\* included.
C4_Original ==
    (format = "PE" /\ pc = "done") =>
        \A k \in 1..Len(functions) : OneStartOneEnd(bytes, functions[k])

\* C4 as amended: after the PE pipeline, every surviving function whose
\* range [offset, offset + size) overlaps the range of no other surviving
\* function has in its range exactly one byte with FUNCTION_START and
\* exactly one with FUNCTION_END.
C4_OneStartOneEndWhenApart ==
    (format = "PE" /\ pc = "done") =>
        \A k \in 1..Len(functions) :
            (\A j \in 1..Len(functions) : j # k => RangesApart(functions, k, j))
                => OneStartOneEnd(bytes, functions[k])

C4_Witness ==
    /\ format = "PE"
    /\ pc = "done"
    /\ Len(functions) = 2
    /\ RangesApart(functions, 1, 2)
    /\ functions[1].size >= 2
    /\ functions[1].data # <<>>
    /\ OneStartOneEnd(bytes, functions[1])
    /\ OneStartOneEnd(bytes, functions[2])

\* the passes that follow disassemble and still see every byte it flagged
AfterDisassemble == pc \in {"align_scan", "align_holes", "end_of_section"}

\* the instructions disassemble finds for each function, in function order
OracleInsns(bs, fns) == Concat([k \in 1..Len(fns) |-> FnInsns(bs, fns[k])])

\* C5: in the PE path, every instruction I in the instruction list, pushed
\* while function F was disassembled, has the byte at F.offset + I.offset +
\* additional_offset flagged INSTRUCTION_START and with all flags of I, and
\* the byte at that position + I.length - 1 flagged INSTRUCTION_END; the
\* list holds every instruction the oracle returned, function by function.
C5_InstructionsFlagged ==
    (format = "PE" /\ AfterDisassemble) =>
        /\ instructions = OracleInsns(bytes, functions)
        /\ Len(placed) = Len(instructions)
        /\ \A k \in 1..Len(instructions) :
              LET I   == instructions[k]
                  F   == functions[placed[k].fn]
                  pos == F.offset + I.offset + additional_offset(F, I, F.data, 0)
              IN  /\ InRange(bytes, pos)
                  /\ InRange(bytes, pos + I.length - 1)
                  /\ HasFlag(bytes[pos + 1], "INSTRUCTION_START")
                  /\ \A j \in 1..Len(I.flags) : HasFlag(bytes[pos + 1], I.flags[j])
                  /\ HasFlag(bytes[pos + I.length], "INSTRUCTION_END")

C5_Witness ==
    /\ format = "PE"
    /\ AfterDisassemble
    /\ \E k \in 1..Len(instructions) :
          /\ instructions[k].length >= 2
          /\ additional_offset(functions[placed[k].fn], instructions[k],
                               functions[placed[k].fn].data, 0) > 0
    /\ \E k \in 1..Len(instructions) : instructions[k].flags # <<>>

\* C6: the flag list of a byte is a set: no flag occurs twice in it, and
\* set_flags with a flag the byte already carries leaves the list as it is.
C6_FlagsAreASet ==
    \A i \in 1..Len(bytes) :
        /\ NoDuplicates(bytes[i].flags)
        /\ \A k \in 1..Len(bytes[i].flags) :
              set_flags(bytes[i], <<bytes[i].flags[k]>>) = bytes[i]

\* the length of the longest suffix of bs whose bytes are all 0x00 and carry
\* neither CODE nor DATA
RECURSIVE MaximalZeroTail(_)
MaximalZeroTail(bs) ==
    IF bs = <<>> THEN 0
    ELSE LET b == bs[Len(bs)]
         IN  IF b.value = 0 /\ ~is_code(b) /\ ~is_data(b)
             THEN 1 + MaximalZeroTail(SubSeq(bs, 1, Len(bs) - 1))
             ELSE 0

\* C7: the end-of-section pass removes exactly the longest suffix of bytes
\* that are 0x00 and carry neither CODE nor DATA: the walk stops at the
\* first byte from the end that is not zero or carries CODE or DATA, so no
\* non-zero byte is removed and a tail of k such bytes shortens the buffer
\* by k.
C7_CutsMaximalZeroTail ==
    [][pc = "end_of_section" =>
          bytes' = SubSeq(bytes, 1, Len(bytes) - MaximalZeroTail(bytes))]_vars

\* the maximal runs <<s, e>> (0-based, inclusive) of bytes without flags
EmptyRuns(bs) ==
    {r \in (0..(Len(bs) - 1)) \X (0..(Len(bs) - 1)) :
        /\ r[1] <= r[2]
        /\ \A p \in r[1]..r[2] : bs[p + 1].flags = <<>>
        /\ r[1] = 0 \/ bs[r[1]].flags # <<>>
        /\ r[2] = Len(bs) - 1 \/ bs[r[2] + 2].flags # <<>>}

\* the run r of bs decodes to one alignment instruction that fills it
OneAlignmentInsn(bs, r) ==
    LET is == disassemble_capstone(Values(SubSeq(bs, r[1] + 1, r[2] + 1)))
    IN  /\ Len(is) = 1
        /\ insn_is_alignment(is[1])
        /\ is[1].length = r[2] - r[1] + 1

\* C8: in the second alignment pass the slice given to the disassembler for
\* a hole is exactly the bytes of the hole, so a hole between two functions
\* that is one alignment instruction of n bytes (a single nop, a 9-byte
\* nop) has all its n bytes flagged INSTRUCTION_ALIGNMENT after the pass.
C8_HoleOfOneNopIsFlagged ==
    [][(pc = "align_holes" /\ pc' # "panic") =>
          \A r \in EmptyRuns(bytes) :
              (/\ r[1] > 0
               /\ r[2] < Len(bytes) - 1
               /\ is_code(bytes[r[1]])
               /\ is_code(bytes[r[2] + 2]))
              =>
              /\ \E k \in 1..Len(detect_holes(bytes)) :
                    /\ detect_holes(bytes)[k].start = r[1]
                    /\ hole_buffer(bytes, detect_holes(bytes)[k])
                          = Values(SubSeq(bytes, r[1] + 1, r[2] + 1))
              /\ OneAlignmentInsn(bytes, r) =>
                    \A p \in r[1]..r[2] : is_alignment(bytes'[p + 1])]_vars

\* the passes in which process() calls detect_holes
CallsDetectHoles == pc \in {"align_holes", "emit"}

\* C9: detect_holes returns exactly the maximal runs of bytes without
\* flags: each hole has size = end - start + 1, lies inside the buffer,
\* covers only bytes without flags, is flanked by flagged bytes (or the
\* buffer's ends), every byte without flags lies in exactly one hole, and a
\* run open at the end of the buffer has end = len - 1.
C9_HolesAreMaximalRuns ==
    CallsDetectHoles =>
        LET hs == detect_holes(bytes)
        IN  /\ \A k \in 1..Len(hs) :
                  /\ hs[k].size = hs[k].end - hs[k].start + 1
                  /\ hs[k].start >= 0
                  /\ hs[k].end <= Len(bytes) - 1
                  /\ \A p \in hs[k].start..hs[k].end : bytes[p + 1].flags = <<>>
                  /\ hs[k].start = 0 \/ bytes[hs[k].start].flags # <<>>
                  /\ hs[k].end = Len(bytes) - 1 \/ bytes[hs[k].end + 2].flags # <<>>
            /\ \A p \in 0..(Len(bytes) - 1) :
                  bytes[p + 1].flags = <<>> =>
                      Cardinality({k \in 1..Len(hs) :
                                      hs[k].start <= p /\ p <= hs[k].end}) = 1
            /\ (bytes # <<>> /\ bytes[Len(bytes)].flags = <<>>) =>
                  (hs # <<>> /\ hs[Len(hs)].end = Len(bytes) - 1)

\* C10: the first alignment pass flags every byte that carries neither CODE
\* nor DATA and has the value 0xCC with INSTRUCTION_ALIGNMENT, and changes
\* no byte that carries CODE or DATA.
C10_Int3OutsideCodeIsAlignment ==
    [][pc = "align_scan" =>
          /\ Len(bytes') = Len(bytes)
          /\ \A i \in 1..Len(bytes) :
                IF is_code(bytes[i]) \/ is_data(bytes[i])
                THEN bytes'[i] = bytes[i]
                ELSE bytes[i].value = 204 => is_alignment(bytes'[i])]_vars

\* after the first pass: an 0xCC between two functions is flagged, an 0xCC
\* inside a function is not
C10_Witness ==
    /\ pc = "align_holes"
    /\ \E i \in 2..(Len(bytes) - 1) :
          /\ bytes[i].value = 204
          /\ ~is_code(bytes[i])
          /\ is_alignment(bytes[i])
          /\ is_code(bytes[i - 1])
          /\ is_code(bytes[i + 1])
    /\ \E i \in 1..Len(bytes) :
          /\ bytes[i].value = 204
          /\ is_code(bytes[i])
          /\ ~is_alignment(bytes[i])

\* reading a decimal scalar of the structured dump back
RECURSIVE from_decimal(_)
from_decimal(s) ==
    IF s = <<>> THEN 0
    ELSE 10 * from_decimal(SubSeq(s, 1, Len(s) - 1))
         + (CHOOSE d \in 0..9 : DigitChars[d + 1] = s[Len(s)])

\* the value sequence read back from the bytes[] of the dump d
ReadBackValues(d) == [i \in 1..Len(d.bytes) |-> from_decimal(d.bytes[i].value)]

\* file bytes [raw_data_offset, raw_data_offset + n) of the binary
TextSlice(n) ==
    SubSeq(file, text_section.raw_data_offset + 1, text_section.raw_data_offset + n)

\* C11 as claimed: the values read back from the bytes[] of the structured
\* dump are the whole trimmed .text slice of the binary, file bytes
\* [raw_data_offset, raw_data_offset + raw_data_size), for every input.
C11_Original ==
    pc = "done" => ReadBackValues(yaml[1]) = TextSlice(text_section.raw_data_size)

\* C11 as amended: the values read back from the bytes[] of the structured
\* dump are the first total_bytes bytes of the trimmed .text slice, file
\* bytes [raw_data_offset, raw_data_offset + total_bytes), with total_bytes
\* <= raw_data_size: the tail the end-of-section pass cut off is not dumped.
C11_DumpIsPrefixOfText ==
    pc = "done" =>
        /\ Len(yaml) = 1
        /\ Len(yaml[1].bytes) = yaml[1].total_bytes
        /\ yaml[1].total_bytes <= text_section.raw_data_size
        /\ ReadBackValues(yaml[1]) = TextSlice(yaml[1].total_bytes)

C11_Witness ==
    /\ pc = "done"
    /\ "yaml" \in written
    /\ text_section.raw_data_offset > 0
    /\ yaml[1].total_bytes > 0
    /\ yaml[1].total_bytes < text_section.raw_data_size
    /\ \E i \in 1..Len(yaml[1].bytes) : Len(yaml[1].bytes[i].value) = 1

\* the lines of the plain dump that stand for runs of .text bytes
RunLines(p) == SelectSeq(p, LAMBDA l : l.kind = "run")

\* the number of bytes a line stands for: its first byte, whose characters
\* are bracketed, and one byte per character behind the bracket
RunCount(l) == 1 + (Len(l.flags) - (CHOOSE k \in 1..Len(l.flags) : l.flags[k] = "]"))

\* the index of the first byte of line k when the lines are laid end to end
RECURSIVE RunFirst(_, _)
RunFirst(ls, k) == IF k = 1 THEN 0 ELSE RunFirst(ls, k - 1) + RunCount(ls[k - 1])

\* C12: the loop of the plain emitter over the .text bytes terminates (each
\* iteration moves its index forward, and the run ends), and when the file
\* is written its lines partition the final buffer: every line stands for at
\* least one byte, laid end to end in order the lines cover the indices
\* 0..len-1 exactly once, and the address of each line is the offset of the
\* first byte of its run plus the image base.
C12_PlainRunsPartition ==
    /\ [][pc = "plain_text" => (cursor' > cursor /\ cursor' <= Len(bytes))]_vars
    /\ (pc = "plain") ~> (pc = "yaml")
    /\ [](pc \in {"yaml", "done"} =>
            LET ls == RunLines(plain)
            IN  /\ \A k \in 1..Len(ls) :
                      /\ RunCount(ls[k]) >= 1
                      /\ RunFirst(ls, k) < Len(bytes)
                      /\ ls[k].address = bytes[RunFirst(ls, k) + 1].offset + image_base
                /\ RunFirst(ls, Len(ls) + 1) = Len(bytes))

\* a written plain dump of a truncated buffer with a code run, an alignment
\* run and an unknown run of more than one byte
C12_Witness ==
    /\ pc = "done"
    /\ "txt" \in written
    /\ Len(bytes) < text_section.raw_data_size
    /\ Len(RunLines(plain)) >= 3
    /\ \E k \in 1..Len(plain) : plain[k].kind = "run" /\ plain[k].flags = <<"[", "U", "]", "U">>
    /\ \E k \in 1..Len(plain) : plain[k].kind = "run" /\ plain[k].flags = <<"[", "N", "]">>

\* C13: trim(start, end) with start <= end <= buffer length keeps exactly the
\* bytes whose file offset lies in [start, end), in their order and with
\* their values and flags, so the buffer is end - start bytes long after it
\* (PE: before any flag is set; ELF: after the functions were flagged).
C13_TrimKeepsTextRange ==
    [][LET start == text_section.raw_data_offset
           end   == text_section.raw_data_offset + text_section.raw_data_size
       IN  (pc = "trim" /\ start <= end /\ end <= Len(bytes)) =>
              /\ pc' # "panic"
              /\ bytes' = SelectSeq(bytes, LAMBDA b : b.offset >= start /\ b.offset < end)
              /\ Len(bytes') = end - start]_vars

\* after the trim of an ELF with bytes in front of and behind .text, some
\* of the kept bytes flagged
C13_Witness ==
    /\ pc = "rebase"
    /\ format = "ELF"
    /\ text_section.raw_data_offset > 0
    /\ Len(file) > text_section.raw_data_offset + text_section.raw_data_size
    /\ Len(bytes) = text_section.raw_data_size
    /\ bytes[1].offset = text_section.raw_data_offset
    /\ \E i \in 1..Len(bytes) : is_code(bytes[i])
    /\ \E i \in 1..Len(bytes) : bytes[i].flags = <<>>

\* C16: in the structured dump total_bytes is the length of the final
\* (truncated) buffer and bytes_identified is the number of its bytes whose
\* flag list is not empty, so bytes_identified <= total_bytes.
C16_DumpCounts ==
    pc = "done" =>
        /\ yaml[1].total_bytes = Len(bytes)
        /\ yaml[1].bytes_identified =
              Cardinality({i \in 1..Len(bytes) : bytes[i].flags # <<>>})
        /\ yaml[1].bytes_identified <= yaml[1].total_bytes

\* a dump of a truncated buffer in which some bytes are code, some carry
\* only the alignment flag and some carry no flag
C16_Witness ==
    /\ pc = "done"
    /\ Len(bytes) < text_section.raw_data_size
    /\ yaml[1].bytes_identified < yaml[1].total_bytes
    /\ \E i \in 1..Len(bytes) : is_code(bytes[i])
    /\ \E i \in 1..Len(bytes) : is_alignment(bytes[i]) /\ ~is_code(bytes[i])

\* function f has exactly one data child, which has an empty name
OneEmptyNameChild(f) == Len(f.data) = 1 /\ f.data[1].name = <<>>

\* the end of the bytes function f and its data children lay claim to
ClaimedEnd(f) ==
    LET ends == {f.offset + f.size} \cup
                {f.data[j].offset + f.data[j].size : j \in 1..Len(f.data)}
    IN  CHOOSE e \in ends : \A x \in ends : x <= e

\* no byte is claimed by both function k and function j of fns
ClaimsApart(fns, k, j) ==
    \/ ClaimedEnd(fns[k]) <= fns[j].offset
    \/ ClaimedEnd(fns[j]) <= fns[k].offset

\* what cut-end does to a function with one empty-name data child inside it
CutEndSizes ==
    [][pc = "cut_end" =>
          \A k \in 1..Len(functions) :
              LET F == functions[k]
                  d == F.data[1]
              IN  (/\ OneEmptyNameChild(F)
                   /\ F.offset < d.offset
                   /\ d.offset < F.offset + F.size)
                  =>
                  /\ functions'[k].data[1].size = (F.offset + F.size) - d.offset
                  /\ functions'[k].size = d.offset - F.offset
                  /\ functions'[k].size + functions'[k].data[1].size = F.size]_vars

\* the flags of F and d after set-flags
CutEndFlags(F) ==
    LET d == F.data[1]
    IN  /\ \A p \in d.offset..(d.offset + d.size - 1) :
              is_data(bytes[p + 1]) /\ ~is_code(bytes[p + 1])
        /\ \A p \in F.offset..(d.offset - 1) :
              is_code(bytes[p + 1]) /\ ~is_data(bytes[p + 1])

\* C14 as claimed: cut-end followed by set-flags on a function F with one
\* empty-name data child d strictly inside F: d.size becomes (old F.offset +
\* old F.size) - d.offset and F.size becomes d.offset - F.offset, so the two
\* sizes add up to the old F.size; after set-flags every byte at positions
\* [d.offset, old end of F) carries DATA and not CODE and every byte at
\* positions [F.offset, d.offset) carries CODE and not DATA.
C14_Original ==
    /\ CutEndSizes
    /\ [](pc = "disassemble" =>
            \A k \in 1..Len(functions) :
                (OneEmptyNameChild(functions[k]) /\ functions[k].data[1].size > 0)
                    => CutEndFlags(functions[k]))

\* C14 as amended: the sizes as claimed; the flags as claimed for every such
\* F whose bytes (its code and its data) are claimed by no other function.
C14_CutEndThenSetFlags ==
    /\ CutEndSizes
    /\ [](pc = "disassemble" =>
            \A k \in 1..Len(functions) :
                (/\ OneEmptyNameChild(functions[k])
                 /\ functions[k].data[1].size > 0
                 /\ \A j \in 1..Len(functions) : j # k => ClaimsApart(functions, k, j))
                    => CutEndFlags(functions[k]))

\* after set-flags: a function cut at its empty-name data child, with more
\* than one byte of code and more than one byte of data, and a second
\* function behind it that has the named data symbol for its child
C14_Witness ==
    /\ pc = "disassemble"
    /\ Len(functions) = 2
    /\ OneEmptyNameChild(functions[1])
    /\ functions[1].size >= 2
    /\ functions[1].data[1].size >= 2
    /\ ClaimsApart(functions, 1, 2)
    /\ CutEndFlags(functions[1])

\* t occurs in s: s = pre \o t \o post for some pre and post
Occurs(t, s) ==
    \E n \in 0..Len(s) : n + Len(t) <= Len(s) /\ \A i \in 1..Len(t) : s[n + i] = t[i]

\* cut-mid gives every named data child 4 bytes per label of its function
\* whose lowercased name contains the lowercased name of the data symbol
\* without "vec"
CutMidSizes ==
    [][pc = "cut_mid" =>
          \A k \in 1..Len(functions) : \A j \in 1..Len(functions[k].data) :
              LET F == functions[k]
                  d == F.data[j]
                  base == replace_with_empty(to_lowercase(d.name), <<"v", "e", "c">>)
              IN  d.name # <<>> =>
                     functions'[k].data[j].size =
                        4 * Cardinality({l \in 1..Len(F.labels) :
                                            Occurs(base, to_lowercase(F.labels[l].name))})]_vars

\* function f has the table MsetTabVec for its only data child and five
\* labels, named in the given spelling with the numbers 0 to 4
S3Case(f, style) ==
    /\ Len(f.data) = 1
    /\ f.data[1].name = MsetTabVec
    /\ Len(f.labels) = 5
    /\ \A k \in 1..5 : f.labels[k].name = TabLabelName(style, k - 1)

\* C15 as claimed: cut-mid sizes a named data child d of F as 4 times the
\* number of F's labels whose lowercased name contains the base name of d; in
\* the S3 case (d named "MsetTabVec", F's labels named "mset_tab_0" to
\* "mset_tab_4") this gives d.size = 20, and after set-flags the 20 bytes at
\* [d.offset, d.offset + 20) carry DATA.
C15_Original ==
    /\ CutMidSizes
    /\ [](pc \in {"set_flags", "disassemble"} =>
            \A k \in 1..Len(functions) :
                S3Case(functions[k], "snake") => functions[k].data[1].size = 20)

\* C15 as amended: the rule as claimed; the base name of "MsetTabVec" is
\* "msettab", which labels named "msetTab0" to "msetTab4" contain and labels
\* named "mset_tab_0" to "mset_tab_4" do not: the former give d.size = 20 and
\* the latter d.size = 0; after set-flags the d.size bytes at [d.offset,
\* d.offset + d.size) carry DATA.
C15_CutMidCountsLabels ==
    /\ CutMidSizes
    /\ [](pc \in {"set_flags", "disassemble"} =>
            \A k \in 1..Len(functions) :
                /\ S3Case(functions[k], "camel") => functions[k].data[1].size = 20
                /\ S3Case(functions[k], "snake") => functions[k].data[1].size = 0)
    /\ [](pc = "disassemble" =>
            \A k \in 1..Len(functions) : \A j \in 1..Len(functions[k].data) :
                LET d == functions[k].data[j]
                IN  d.name # <<>> =>
                       \A p \in d.offset..(d.offset + d.size - 1) : is_data(bytes[p + 1]))

\* after set-flags: the table has its five labels and its 20 bytes carry DATA
C15_Witness ==
    /\ pc = "disassemble"
    /\ S3Case(functions[1], "camel")
    /\ functions[1].data[1].size = 20
    /\ \A p \in functions[1].data[1].offset..(functions[1].data[1].offset + 19) :
          is_data(bytes[p + 1])
    /\ ~is_data(bytes[functions[1].data[1].offset + 21])

NoTextSection == \A k \in 1..Len(sections) : sections[k].name # ".text"

\* C17: when the section list has no section named .text, process() ends in
\* the fatal error state at its first step, with the buffer, the symbol
\* tables and the instruction list as they were and no output written; on
\* every run that ends in the fatal error state (no .text, an oracle call
\* that returns Err) neither output file is written, and the fatal error
\* state is final.
C17_FatalWritesNothing ==
    /\ [][(pc = "select" /\ NoTextSection) =>
            /\ pc' = "fatal"
            /\ bytes' = bytes
            /\ functions' = functions
            /\ data' = data
            /\ labels' = labels
            /\ instructions' = instructions
            /\ written' = {}]_vars
    /\ [](NoTextSection => (written = {} /\ yaml = <<>>))
    /\ [](pc = "fatal" => (written = {} /\ yaml = <<>>))
    /\ [][pc # "fatal"]_vars

\* the fatal error state of a run whose section list has a section, but none
\* named .text
C17_Witness ==
    /\ pc = "fatal"
    /\ sections # <<>>
    /\ NoTextSection
    /\ functions # <<>>
    /\ bytes = read_bytes(file)

\* symbol s lies strictly inside function f, in its segment
StrictlyInside(s, f) ==
    s.segment = f.segment /\ f.offset < s.offset /\ s.offset < f.offset + f.size

\* the number of elements of the sequence syms that satisfy Test
CountOf(syms, Test(_)) == Cardinality({i \in 1..Len(syms) : Test(syms[i])})

\* C18: the relationship pass attaches a global label L (a global data
\* symbol d) to function F if and only if it is in F's segment and F.offset <
\* L.offset < F.offset + F.size; a symbol at F.offset, at F.offset + F.size
\* or in another segment is not attached, and one that is attached is
\* attached once.
C18_AttachesStrictlyInside ==
    [][pc = "relate" =>
          \A k \in 1..Len(functions) :
              LET F == functions[k]
                  G == functions'[k]
              IN  /\ \A i \in 1..Len(labels) :
                        (\E j \in 1..Len(G.labels) : G.labels[j] = labels[i])
                            <=> StrictlyInside(labels[i], F)
                  /\ \A i \in 1..Len(data) :
                        (\E j \in 1..Len(G.data) : G.data[j] = data[i])
                            <=> StrictlyInside(data[i], F)
                  /\ Len(G.labels) = CountOf(labels, LAMBDA L : StrictlyInside(L, F))
                  /\ Len(G.data) = CountOf(data, LAMBDA d : StrictlyInside(d, F))]_vars

\* after the pass: a function has the label and the data symbol for its
\* children, a second function that starts at the label's offset has not
C18_Witness ==
    /\ pc = "cut_end"
    /\ Len(functions) = 2
    /\ Len(labels) = 1
    /\ Len(data) = 1
    /\ functions[1].labels = labels
    /\ functions[1].data = data
    /\ functions[2].offset = labels[1].offset
    /\ functions[2].segment = labels[1].segment
    /\ functions[2].labels = <<>>

\* C19: every pass is idempotent; in particular the relationship pass, run
\* again on the state it has left, leaves the labels and the data children
\* of every function as they are.
C19_RelateTwiceIsRelateOnce ==
    (format = "PE" /\ pc = "cut_end") =>
        create_relationships(functions, labels, data) = functions

\* function f has exactly one data child, a named one with size > 0 that
\* lies wholly inside f
OneMidData(f) ==
    /\ Len(f.data) = 1
    /\ f.data[1].name # <<>>
    /\ f.data[1].size > 0
    /\ f.offset < f.data[1].offset
    /\ f.data[1].offset + f.data[1].size <= f.offset + f.size

\* the position of the byte that is byte k (0-based) of the code-only buffer
\* of f: the bytes of f that do not carry DATA, in order
SourcePos(bs, f, k) ==
    CHOOSE p \in f.offset..(f.offset + f.size - 1) :
        /\ ~is_data(bs[p + 1])
        /\ Cardinality({q \in f.offset..(p - 1) : ~is_data(bs[q + 1])}) = k

\* C20: in the PE path, for a function F with exactly one mid-function data
\* region d of size s wholly inside F, every instruction the oracle returns
\* at offset k of the code-only buffer is flagged at position F.offset + k
\* when F.offset + k < d.offset and at F.offset + k + s otherwise, which is
\* the position of the byte that gave the code-only buffer its byte k.
C20_InstructionsMovedPastData ==
    (format = "PE" /\ AfterDisassemble) =>
        /\ Len(placed) = Len(instructions)
        /\ \A n \in 1..Len(instructions) :
              LET I == instructions[n]
                  F == functions[placed[n].fn]
                  d == F.data[1]
                  pos == IF F.offset + I.offset < d.offset
                         THEN F.offset + I.offset
                         ELSE F.offset + I.offset + d.size
              IN  OneMidData(F) =>
                     /\ placed[n].pos = pos
                     /\ pos = SourcePos(bytes, F, I.offset)
                     /\ HasFlag(bytes[pos + 1], "INSTRUCTION_START")

\* a function with a 4-byte table inside it, an instruction in front of the
\* table and one on the first byte behind it
C20_Witness ==
    /\ format = "PE"
    /\ AfterDisassemble
    /\ Len(functions) = 1
    /\ OneMidData(functions[1])
    /\ \E n \in 1..Len(placed) : placed[n].pos < functions[1].data[1].offset
    /\ \E n \in 1..Len(placed) :
          /\ placed[n].pos = functions[1].data[1].offset + functions[1].data[1].size
          /\ functions[1].offset + instructions[n].offset = functions[1].data[1].offset

\* the empty-name data children of f that cut-end gave a size: the tail data
\* the function was cut at
TailData(f) == {j \in 1..Len(f.data) : f.data[j].name = <<>> /\ f.data[j].size > 0}

\* position p lies in a data region of a child of some function of fns
InChildData(fns, p) ==
    \E m \in 1..Len(fns) : \E j \in 1..Len(fns[m].data) :
        fns[m].data[j].offset <= p /\ p < fns[m].data[j].offset + fns[m].data[j].size

\* C21: FUNCTION_END is placed after cut-end has shrunk F.size: in the PE
\* path every function F has FUNCTION_END on the byte at F.offset + F.size - 1
\* with F.size as cut-end left it.  For a function with trailing empty-name
\* data d that byte is the byte just in front of d, the last code byte of F
\* (it carries CODE where no child data region lies over it), and the flag
\* of F is not on F's original last byte, the last byte of d: that byte
\* carries FUNCTION_END only where a function of the list has its own
\* (shrunk) last byte.
C21_FunctionEndAfterShrink ==
    (format = "PE" /\ AfterDisassemble) =>
        \A k \in 1..Len(functions) :
            LET F == functions[k]
            IN  /\ F.size >= 1
                /\ HasFlag(bytes[F.offset + F.size], "FUNCTION_END")
                /\ \A j \in TailData(F) :
                      LET d == F.data[j]
                      IN  /\ d.offset = F.offset + F.size
                          /\ ~InChildData(functions, d.offset - 1) =>
                                (is_code(bytes[d.offset]) /\ ~is_data(bytes[d.offset]))
                          /\ HasFlag(bytes[d.offset + d.size], "FUNCTION_END") =>
                                \E m \in 1..Len(functions) :
                                    functions[m].offset + functions[m].size
                                        = d.offset + d.size

\* after disassemble: a function of two or more code bytes cut at a tail of
\* two or more data bytes, FUNCTION_END on its last code byte and not on the
\* last byte of the tail
C21_Witness ==
    /\ format = "PE"
    /\ pc = "align_scan"
    /\ \E k \in 1..Len(functions) : \E j \in TailData(functions[k]) :
          LET F == functions[k]
              d == F.data[j]
          IN  /\ F.size >= 2
              /\ d.size >= 2
              /\ HasFlag(bytes[F.offset + F.size], "FUNCTION_END")
              /\ is_code(bytes[F.offset + F.size])
              /\ ~HasFlag(bytes[d.offset + d.size], "FUNCTION_END")
              /\ is_data(bytes[d.offset + d.size])

\* s without a trailing pat (s as it is when it does not end in pat)
strip_suffix(s, pat) ==
    IF Len(pat) <= Len(s) /\ SubSeq(s, Len(s) - Len(pat) + 1, Len(s)) = pat
    THEN SubSeq(s, 1, Len(s) - Len(pat))
    ELSE s

\* C22: when cut-mid computes the base name of a data symbol only a trailing
\* "vec" is stripped from the lowercased name and a "vec" elsewhere in the
\* name stays: the size of a named data child is 4 times the number of
\* labels of its function whose lowercased name contains the lowercased name
\* of the symbol without its trailing "vec" ("VecTab" is matched as "vectab").
C22_OnlyTrailingVecStripped ==
    [][pc = "cut_mid" =>
          \A k \in 1..Len(functions) : \A j \in 1..Len(functions[k].data) :
              LET F == functions[k]
                  d == F.data[j]
                  base == strip_suffix(to_lowercase(d.name), <<"v", "e", "c">>)
              IN  d.name # <<>> =>
                     functions'[k].data[j].size =
                        4 * Cardinality({l \in 1..Len(F.labels) :
                                            Occurs(base, to_lowercase(F.labels[l].name))})]_vars

\* the passes of PE::process that follow the two cuts
AfterCuts == pc \in {"set_flags", "disassemble", "align_scan", "align_holes",
                     "end_of_section", "emit"}

\* C23: the children attached to functions are copies: cut-end and cut-mid
\* leave the global data and label collections as they are, every record of
\* the global data collection has the size of its ingestion (0) throughout,
\* and after the cuts every child of a function is a global record but for
\* its size (every label child is a global label).
C23_ChildrenAreCopies ==
    /\ [][(pc = "cut_end" \/ pc = "cut_mid") =>
            /\ data' = data
            /\ labels' = labels]_vars
    /\ [](\A i \in 1..Len(data) : data[i].size = 0)
    /\ [](AfterCuts =>
            \A k \in 1..Len(functions) :
                /\ \A j \in 1..Len(functions[k].data) :
                      [functions[k].data[j] EXCEPT !.size = 0] \in Range(data)
                /\ \A j \in 1..Len(functions[k].labels) :
                      functions[k].labels[j] \in Range(labels))

\* after the cuts: a function whose named child and whose empty-name child
\* both have a size, the global records of both with size 0
C23_Witness ==
    /\ pc = "set_flags"
    /\ format = "PE"
    /\ Len(data) = 2
    /\ \A i \in 1..Len(data) : data[i].size = 0
    /\ \E k \in 1..Len(functions) :
          /\ Len(functions[k].data) = 2
          /\ functions[k].data[1].name # <<>>
          /\ functions[k].data[1].size > 0
          /\ functions[k].data[2].name = <<>>
          /\ functions[k].data[2].size > 0
          /\ [functions[k].data[1] EXCEPT !.size = 0] = data[1]
          /\ [functions[k].data[2] EXCEPT !.size = 0] = data[2]

\* function f runs past the end of the vector bs
ExceedsBuffer(bs, f) == f.offset + f.size > Len(bs)

\* C24: in the ELF path a function whose range exceeds the buffer is
\* tolerated function by function: after set-flags and disassemble every
\* later function of the list that lies inside the buffer has CODE on all
\* its bytes, FUNCTION_START on its first byte, FUNCTION_END on its last, and
\* its instructions in the instruction list.
C24_LaterFunctionsStillDone ==
    (format = "ELF" /\ pc = "trim") =>
        \A j, k \in 1..Len(functions) :
            (j < k /\ ExceedsBuffer(bytes, functions[j]) /\ ~ExceedsBuffer(bytes, functions[k]))
            =>
            LET F == functions[k]
            IN  /\ \A p \in F.offset..(F.offset + F.size - 1) : is_code(bytes[p + 1])
                /\ HasFlag(bytes[F.offset + 1], "FUNCTION_START")
                /\ HasFlag(bytes[F.offset + F.size], "FUNCTION_END")
                /\ FnInsns(bytes, F) # <<>> => \E n \in 1..Len(placed) : placed[n].fn = k

\* the class of a line of the plain dump: the last character in its bracket
LineClass(l) == l.flags[(CHOOSE k \in 1..Len(l.flags) : l.flags[k] = "]") - 1]

\* byte b carries the flag of class cls and the flag of no other class
OfClassOnly(b, cls) ==
    /\ is_code(b) <=> cls = "C"
    /\ is_data(b) <=> cls = "D"
    /\ is_alignment(b) <=> cls = "N"

\* C25 as claimed: the plain dump has one line per maximal run of bytes of
\* one class of {code, data, alignment, unknown}, so no two consecutive lines
\* have the same class.
C25_Original ==
    pc \in {"yaml", "done"} =>
        LET ls == RunLines(plain)
        IN  \A k \in 1..(Len(ls) - 1) : LineClass(ls[k]) # LineClass(ls[k + 1])

\* C25 as amended: every line stands for a run of bytes of one class that
\* is cut at every instruction start: the bytes behind the first byte of a
\* line carry the flag of the line's class, the flag of no other class and
\* not INSTRUCTION_START, and the run is maximal as such, i.e. the first
\* byte of the next line is of another class, carries INSTRUCTION_START or
\* carries the flag of a second class.  Two consecutive lines do have the
\* same class where the second starts at an instruction start: the code of a
\* function is written one line per instruction.
C25_RunsEndAtInstructionStarts ==
    pc \in {"yaml", "done"} =>
        LET ls == RunLines(plain)
        IN  \A k \in 1..Len(ls) :
                LET first == RunFirst(ls, k)
                    next  == first + RunCount(ls[k])
                    cls   == LineClass(ls[k])
                IN  /\ next <= Len(bytes)
                    /\ cls = byte_class(bytes[first + 1])
                    /\ \A p \in (first + 1)..(next - 1) :
                          /\ OfClassOnly(bytes[p + 1], cls)
                          /\ ~HasFlag(bytes[p + 1], "INSTRUCTION_START")
                    /\ next < Len(bytes) =>
                          \/ byte_class(bytes[next + 1]) # cls
                          \/ HasFlag(bytes[next + 1], "INSTRUCTION_START")
                          \/ ~OfClassOnly(bytes[next + 1], cls)

\* a written plain dump with two code lines one behind the other, the first
\* an instruction of more than one byte, and with an unknown run of more
\* than one byte behind the code
C25_Witness ==
    /\ pc = "done"
    /\ "txt" \in written
    /\ LET ls == RunLines(plain)
       IN  /\ \E k \in 1..(Len(ls) - 1) :
                 /\ LineClass(ls[k]) = "C"
                 /\ RunCount(ls[k]) >= 2
                 /\ LineClass(ls[k + 1]) = "C"
                 /\ HasFlag(bytes[RunFirst(ls, k + 1) + 1], "INSTRUCTION_START")
           /\ \E k \in 1..Len(ls) : LineClass(ls[k]) = "U" /\ RunCount(ls[k]) >= 2

\* the data regions of f are pairwise disjoint, listed in ascending offset
\* order and wholly inside f
RegionsInOrder(f) ==
    /\ \A j \in 1..Len(f.data) :
          /\ f.offset < f.data[j].offset
          /\ f.data[j].offset + f.data[j].size <= f.offset + f.size
    /\ \A j \in 1..(Len(f.data) - 1) :
          f.data[j].offset + f.data[j].size <= f.data[j + 1].offset

\* the total size of the data regions ds that begin in front of position p
RECURSIVE SizeBefore(_, _)
SizeBefore(ds, p) ==
    IF ds = <<>> THEN 0
    ELSE (IF Head(ds).offset < p THEN Head(ds).size ELSE 0) + SizeBefore(Tail(ds), p)

C27_AlignmentOnlyOnUnflagged ==
    [][(pc = "align_scan" \/ pc = "align_holes") =>
          /\ Len(bytes') = Len(bytes)
          /\ \A i \in 1..Len(bytes) :
                bytes'[i].flags # bytes[i].flags =>
                    (~is_code(bytes[i]) /\ ~is_data(bytes[i]))]_vars

\* function f lies inside the file range of the section s
InsideSection(f, s) ==
    /\ s.raw_data_offset <= f.offset
    /\ f.offset + f.size <= s.raw_data_offset + s.raw_data_size

\* C28: in the ELF path, for every function F inside the .text section the
\* byte that carries FUNCTION_START for F (the byte of the file at index
\* F.offset, after the trim the byte at index F.offset - raw_data_offset) has
\* the final offset F.offset, whatever the va and the raw_data_offset of the
\* section.
C28_FunctionStartAtFunctionOffset ==
    (format = "ELF" /\ pc = "done") =>
        \A k \in 1..Len(functions) :
            LET F == functions[k]
                i == F.offset - text_section.raw_data_offset
            IN  (/\ InsideSection(F, text_section)
                 /\ InRange(bytes, i)
                 /\ HasFlag(bytes[i + 1], "FUNCTION_START"))
                => bytes[i + 1].offset = F.offset

\* C29: after the pipeline has completed (PE and ELF), every byte that
\* carries CODE also carries READABLE and EXECUTABLE.
C29_CodeIsReadableExecutable ==
    pc = "done" =>
        \A i \in 1..Len(bytes) :
            is_code(bytes[i]) =>
                (HasFlag(bytes[i], "READABLE") /\ HasFlag(bytes[i], "EXECUTABLE"))

\* the passes of PE::process from the end of the prune pass on, the emitters
\* and the end of the run
AfterPrune == pc \in {"relate", "cut_end", "cut_mid", "set_flags", "disassemble",
                      "align_scan", "align_holes", "end_of_section", "emit",
                      "plain", "plain_text", "yaml", "done"}

\* C30: in the PE path, from the end of the prune pass until the emission
\* every function of the function list has size >= 1 (cut-end never shrinks a
\* function to size 0), so the position of FUNCTION_END, F.offset + F.size -
\* 1, is never below F.offset.
C30_FunctionsKeepAByte ==
    (format = "PE" /\ AfterPrune) =>
        \A k \in 1..Len(functions) :
            /\ functions[k].size >= 1
            /\ functions[k].offset + functions[k].size - 1 >= functions[k].offset

\* after disassemble: a function that cut-end has shrunk to one byte, which
\* carries FUNCTION_START and FUNCTION_END
C30_Witness ==
    /\ format = "PE"
    /\ pc = "align_scan"
    /\ \E k \in 1..Len(functions) :
          /\ TailData(functions[k]) # {}
          /\ functions[k].size = 1
          /\ HasFlag(bytes[functions[k].offset + 1], "FUNCTION_START")
          /\ HasFlag(bytes[functions[k].offset + 1], "FUNCTION_END")

====
